---- MODULE Spec2Model ----
(***************************************************************************)
(* Verification model of the perception/localization providers:            *)
(*   - TurtleBot4RPLidarProvider  (src/src/providers/                      *)
(*     turtlebot4_rplidar_provider.py): LIDAR path-safety classifier       *)
(*   - OdomProviderBase and its variants (src/src/providers/               *)
(*     odom_provider_base.py, unitree_g1_odom_provider.py, ...)            *)
(*                                                                         *)
(* Units.  Lengths are integers in centimetres, angles are integers in     *)
(* degrees (multiples of 15), yaw values are integers in 1e-4 degree (the  *)
(* resolution of round(., 4)).  Python's None is the empty tuple and a     *)
(* present value v is the one-element tuple <<v>>.                         *)
(***************************************************************************)
EXTENDS Integers, Sequences, FiniteSets, TLC

None == << >>
Some(v) == << v >>

(***************************************************************************)
(* Bounds of the model                                                     *)
(***************************************************************************)
MaxRanges == 2
MaxLogLines == 3
MaxPermuted == 3

(***************************************************************************)
(* Program constants of TurtleBot4RPLidarProvider                          *)
(***************************************************************************)
DEFAULT_HALF_WIDTH_ROBOT == 20
DEFAULT_RELEVANT_DISTANCE_MAX == 110
DEFAULT_RELEVANT_DISTANCE_MIN == 8
DEFAULT_SENSOR_MOUNTING_ANGLE == 180
D435_MIN_OBSTACLES == 50
PATH_LENGTH == 100

half_width_robot == DEFAULT_HALF_WIDTH_ROBOT
relevant_distance_max == DEFAULT_RELEVANT_DISTANCE_MAX
relevant_distance_min == DEFAULT_RELEVANT_DISTANCE_MIN

path_angles == <<-60, -45, -30, -15, 0, 15, 30, 45, 60, 180>>

VARIABLES
    running,                 \* self.running
    scans,                   \* self.scans: the last deserialized LaserScan
    angles,                  \* self.angles (cached on the first sweep)
    angles_final,            \* self.angles_final
    raw_scan,                \* self._raw_scan
    valid_paths,             \* self._valid_paths
    lidar_string,            \* self._lidar_string
    turn_left,               \* self.turn_left
    turn_right,              \* self.turn_right
    advance,                 \* self.advance
    retreat,                 \* self.retreat
    raw,                     \* the raw frame built by the last _path_processor
    sensor_mounting_angle,   \* self.sensor_mounting_angle
    angles_blanked,          \* self.angles_blanked
    d435_running,            \* self.d435_provider.running
    d435_obstacle,           \* self.d435_provider.obstacle
    write_to_local_file,     \* self.write_to_local_file
    filename_current,        \* self.filename_current (0: None, k: k-th name)
    files,                   \* the dump/ directory: file k |-> its lines
    max_file_size_bytes,     \* self.max_file_size_bytes
    last_call,               \* the provider operation that completed last
    call_arg,                \* the argument of the latest write_str_to_file
    raised,                  \* the exception the latest call left with
    sweep_pc,                \* where _path_processor is in its final writes
    pending,                 \* the results the sweep in progress has computed
    observed                 \* what a reader of the provider saw last

lidar_vars == <<running, scans, angles, angles_final, raw_scan, valid_paths,
                lidar_string, turn_left, turn_right, advance, retreat, raw,
                sensor_mounting_angle, angles_blanked, d435_running,
                d435_obstacle, write_to_local_file, filename_current, files,
                max_file_size_bytes, last_call>>

(***************************************************************************)
(* math.sin / math.cos on multiples of 15 degrees, scaled by 100           *)
(***************************************************************************)
Sin100Q == <<0, 26, 50, 71, 87, 97, 100>>

sin100(a) ==
    LET b == a % 360
    IN  IF b <= 90 THEN Sin100Q[(b \div 15) + 1]
        ELSE IF b <= 180 THEN Sin100Q[((180 - b) \div 15) + 1]
        ELSE IF b <= 270 THEN 0 - Sin100Q[((b - 180) \div 15) + 1]
        ELSE 0 - Sin100Q[((360 - b) \div 15) + 1]

cos100(a) == sin100(a + 90)

\* n / 100 rounded to the nearest integer (centimetre resolution)
RoundDiv100(n) ==
    IF n >= 0 THEN (n + 50) \div 100 ELSE 0 - ((50 - n) \div 100)

(***************************************************************************)
(* _create_straight_path_from_angle / _initialize_paths                    *)
(* Only the first and the last of the 30 linspace points are ever read.    *)
(***************************************************************************)
create_straight_path_from_angle(angle_degrees, length) ==
    LET end_x == RoundDiv100(length * sin100(angle_degrees))
        end_y == RoundDiv100(length * cos100(angle_degrees))
    IN  << <<0, end_x>>, <<0, end_y>> >>

paths ==
    [i \in 1..Len(path_angles) |->
        create_straight_path_from_angle(path_angles[i], PATH_LENGTH)]

(***************************************************************************)
(* distance_point_to_line_segment                                          *)
(* Returns the squared distance as the fraction <<num, den>>.  With        *)
(* t = tn / td clamped to [0, 1] and closest = p1 + t * (dx, dy):          *)
(*   t = 0:      |p - p1|^2                                                *)
(*   t = 1:      |p - p2|^2                                                *)
(*   0 < t < 1:  |p - p1|^2 - tn^2 / td                                    *)
(***************************************************************************)
distance_point_to_line_segment(px, py, x1, y1, x2, y2) ==
    LET dx == x2 - x1
        dy == y2 - y1
        sq1 == (px - x1) * (px - x1) + (py - y1) * (py - y1)
        sq2 == (px - x2) * (px - x2) + (py - y2) * (py - y2)
        tn == (px - x1) * dx + (py - y1) * dy
        td == dx * dx + dy * dy
    IN  IF dx = 0 /\ dy = 0 THEN <<sq1, 1>>
        ELSE IF tn <= 0 THEN <<sq1, 1>>
        ELSE IF tn >= td THEN <<sq2, 1>>
        ELSE <<sq1 * td - tn * tn, td>>

\* mutation of TooClose: the comparison is reversed
TooCloseReversed(dist_sq, width) == dist_sq[1] > width * width * dist_sq[2]

\* dist_to_line < self.half_width_robot, on the squared fraction
TooClose(dist_sq, width) == dist_sq[1] < width * width * dist_sq[2]

(***************************************************************************)
(* _path_processor, lines 261-307: orientation, relevance window, blanking *)
(***************************************************************************)
\* lines 269-273: add the mounting angle, one wrap step into [0, 360)
OrientAngle(angle, mounting) ==
    LET a == angle + mounting
    IN  IF a >= 360 THEN a - 360
        ELSE IF a < 0 THEN 360 + a
        ELSE a

\* line 289
InBlankedRange(angle, b) == angle >= b[1] /\ angle <= b[2]

\* lines 288-292: `for b in self.angles_blanked`.  The `continue` is a
\* statement of this loop, so it moves on to the next b; when the loop is
\* exhausted control falls through to line 296 for every reading.
RECURSIVE BlankedLoop(_, _, _)
BlankedLoop(angle, blanked, i) ==
    IF i > Len(blanked) THEN "fall_through"
    ELSE IF InBlankedRange(angle, blanked[i])
         THEN BlankedLoop(angle, blanked, i + 1)
         ELSE BlankedLoop(angle, blanked, i + 1)

\* lines 296-307: polar reading to the row [x, y, angle, d_m]
ToComplex(angle, d_m) ==
    LET a_deg == angle + 180
        v1 == RoundDiv100(d_m * cos100(a_deg))
        v2 == RoundDiv100(d_m * sin100(a_deg))
    IN  <<0 - v2, 0 - v1, angle, d_m>>

\* line 275: raw.append([round(angle, 2), d_m]) for every reading
RawFrame(data, mounting) ==
    [i \in 1..Len(data) |-> <<OrientAngle(data[i][1], mounting), data[i][2]>>]

\* line 278: d_m > self.relevant_distance_max
IsDistant(d_m) == d_m > relevant_distance_max

\* mutation of IsTooClose: the lower end of the window is not applied
IsTooCloseNever(d_m) == FALSE

\* line 282: d_m < self.relevant_distance_min
IsTooClose(d_m) == d_m < relevant_distance_min

\* lines 264-307: the rows appended to complexes, in reading order
RECURSIVE Complexes(_, _, _, _)
Complexes(data, mounting, blanked, i) ==
    IF i > Len(data) THEN << >>
    ELSE LET oriented == OrientAngle(data[i][1], mounting)
             d_m == data[i][2]
             angle == oriented - 180
             rest == Complexes(data, mounting, blanked, i + 1)
         IN  IF IsDistant(d_m) THEN rest
             ELSE IF IsTooClose(d_m) THEN rest
             ELSE IF BlankedLoop(angle, blanked, 1) = "fall_through"
                  THEN <<ToComplex(angle, d_m)>> \o rest
                  ELSE rest

\* mutation of D435Rows: a list of exactly D435_MIN_OBSTACLES points is
\* merged as well
D435RowsAtLeast(d_running, d_obstacle) ==
    IF d_running /\ Len(d_obstacle) >= D435_MIN_OBSTACLES
    THEN [i \in 1..Len(d_obstacle) |->
            <<d_obstacle[i].x, d_obstacle[i].y,
              d_obstacle[i].angle, d_obstacle[i].distance>>]
    ELSE << >>

\* lines 310-320: rows of the D435 obstacles, appended when the merge
\* condition holds
D435Rows(d_running, d_obstacle) ==
    IF d_running /\ Len(d_obstacle) > D435_MIN_OBSTACLES
    THEN [i \in 1..Len(d_obstacle) |->
            <<d_obstacle[i].x, d_obstacle[i].y,
              d_obstacle[i].angle, d_obstacle[i].distance>>]
    ELSE << >>

\* lines 351-352: array[array[:, 2].argsort()], rows ordered by angle.
\* Computed bucket by bucket: the rows of the smallest angle in their
\* original order, then those of the next angle, and so on.
RECURSIVE ConcatByAngle(_, _)
ConcatByAngle(rows, keys) ==
    IF keys = {} THEN << >>
    ELSE LET k == CHOOSE m \in keys : \A o \in keys : m <= o
         IN  SelectSeq(rows, LAMBDA r : r[3] = k)
             \o ConcatByAngle(rows, keys \ {k})

SortByAngle(rows) ==
    ConcatByAngle(rows, {rows[i][3] : i \in 1..Len(rows)})

(***************************************************************************)
(* _path_processor, lines 346-389: the obstruction loop                    *)
(***************************************************************************)
\* line 346
InitialPossiblePaths == <<4>>

\* np.setdiff1d(possible_paths, [apath]) on a sorted array without repeats
setdiff1d(possible_paths, apath) ==
    SelectSeq(possible_paths, LAMBDA q : q # apath)

\* lines 361-389: `for apath in possible_paths` for one point; the loop runs
\* over the array bound to possible_paths when the loop starts (iter) and
\* ends at the first path it removes (break)
RECURSIVE PathLoop(_, _, _, _)
PathLoop(row, iter, i, possible_paths) ==
    IF i > Len(iter) THEN possible_paths
    ELSE LET apath == iter[i]
             path_points == paths[apath + 1]
             start_x == path_points[1][1]
             start_y == path_points[2][1]
             end_x == path_points[1][Len(path_points[1])]
             end_y == path_points[2][Len(path_points[2])]
             dist_to_line == distance_point_to_line_segment(
                                 row[1], row[2], start_x, start_y, end_x, end_y)
         IN  IF apath = 9 /\ row[2] >= 0
             THEN PathLoop(row, iter, i + 1, possible_paths)
             ELSE IF TooClose(dist_to_line, half_width_robot)
                  THEN setdiff1d(possible_paths, apath)
                  ELSE PathLoop(row, iter, i + 1, possible_paths)

\* mutation of PointLoop: the break leaves the loop over the points as well,
\* only the first point is looked at
PointLoopFirstPoint(rows, k, possible_paths) ==
    PathLoop(rows[k], possible_paths, 1, possible_paths)

\* line 360: `for x, y, d in zip(X, Y, D)` from row k on.  A point whose
\* inner loop removes nothing leaves possible_paths as it is, so the loop
\* is advanced to the next point that removes a path.
RECURSIVE PointLoop(_, _, _)
PointLoop(rows, k, possible_paths) ==
    LET removing == {j \in k..Len(rows) :
                        PathLoop(rows[j], possible_paths, 1, possible_paths)
                            # possible_paths}
    IN  IF removing = {} THEN possible_paths
        ELSE LET j == CHOOSE m \in removing : \A o \in removing : m <= o
             IN  PointLoop(rows, j + 1,
                           PathLoop(rows[j], possible_paths, 1, possible_paths))

\* lines 348-352: the array the loop and self._raw_scan see
SortedArray(complexes) ==
    IF Len(complexes) > 0 THEN SortByAngle(complexes) ELSE complexes

\* lines 346-389, on the sorted array
PossiblePaths(array) ==
    IF Len(array) > 0
    THEN PointLoop(array, 1, InitialPossiblePaths)
    ELSE InitialPossiblePaths

(***************************************************************************)
(* _path_processor, lines 393-411: buckets and summary                     *)
(***************************************************************************)
TurnLeftOf(ppl) == SelectSeq(ppl, LAMBDA p : p < 3)
AdvanceOf(ppl) == SelectSeq(ppl, LAMBDA p : ~(p < 3) /\ p >= 3 /\ p <= 5)
TurnRightOf(ppl) ==
    SelectSeq(ppl, LAMBDA p : ~(p < 3) /\ ~(p >= 3 /\ p <= 5) /\ p < 9)
RetreatOf(ppl) ==
    \E i \in 1..Len(ppl) :
        ~(ppl[i] < 3) /\ ~(ppl[i] >= 3 /\ ppl[i] <= 5) /\ ~(ppl[i] < 9)
        /\ ppl[i] = 9

SURROUNDED ==
    "You are surrounded by objects and cannot safely move in any direction. DO NOT MOVE."
\* mutation of MIGHT_BE_SURROUNDED: the log message is stored instead
WAITING_MESSAGE == "Waiting for Zenoh Laserscan data..."

MIGHT_BE_SURROUNDED ==
    "You might be surrounded by objects and cannot safely move in any direction. DO NOT MOVE."

\* mutation of generate_movement_string: the test of self.advance is negated
generate_movement_string_negated(ppl, self_advance) ==
    IF ppl = << >> THEN SURROUNDED
    ELSE "The safe movement directions are: {"
         \o "'turn left', 'turn right', "
         \o (IF self_advance = << >> THEN "'move forwards', " ELSE "")
         \o "'stand still'}. "

\* _generate_movement_string(valid_paths), reading self.advance
generate_movement_string(ppl, self_advance) ==
    IF ppl = << >> THEN SURROUNDED
    ELSE "The safe movement directions are: {"
         \o "'turn left', 'turn right', "
         \o (IF self_advance # << >> THEN "'move forwards', " ELSE "")
         \o "'stand still'}. "

(***************************************************************************)
(* Diagnostic log: update_filename, write_str_to_file, json.dumps          *)
(* A file name is the index k of the k-th name issued by update_filename   *)
(* (successive time.time() values differ); files[k] is that file.          *)
(***************************************************************************)
RECURSIVE JoinRows(_, _)
JoinRows(rows, i) ==
    IF i > Len(rows) THEN ""
    ELSE (IF i > 1 THEN ", " ELSE "")
         \o "[" \o ToString(rows[i][1]) \o ", " \o ToString(rows[i][2]) \o "]"
         \o JoinRows(rows, i + 1)

\* json.dumps({"frame": raw_array.tolist()})
JsonFrame(raw_rows) == "{\"frame\": [" \o JoinRows(raw_rows, 1) \o "]}"

RECURSIVE FileSize(_, _)
FileSize(lines, i) ==
    IF i > Len(lines) THEN 0 ELSE Len(lines[i]) + FileSize(lines, i + 1)

\* mutation of write_str_to_file: the size of the current file is not looked
\* at
write_str_to_file_unlimited(json_line, fname, dir, limit, opened) ==
    [filename_current |-> fname,
     files |-> IF fname # 0 /\ opened
               THEN [dir EXCEPT ![fname] =
                       [exists |-> TRUE,
                        lines |-> Append(dir[fname].lines, json_line \o "\n")]]
               ELSE dir]

\* lines 177-188 for a str payload; opened is FALSE when open()/write()
\* raises.  Returns the new filename_current and directory.
write_str_to_file(json_line, fname, dir, limit, opened) ==
    LET rotate == fname # 0 /\ dir[fname].exists
                  /\ FileSize(dir[fname].lines, 1) > limit
        dir1 == IF rotate
                THEN Append(dir, [exists |-> FALSE, lines |-> << >>])
                ELSE dir
        fname1 == IF rotate THEN Len(dir1) ELSE fname
        dir2 == IF fname1 # 0 /\ opened
                THEN [dir1 EXCEPT ![fname1] =
                        [exists |-> TRUE,
                         lines |-> Append(dir1[fname1].lines, json_line \o "\n")]]
                ELSE dir1
    IN  [filename_current |-> fname1, files |-> dir2]

(***************************************************************************)
(* _zenoh_processor, lines 231-246                                         *)
(* LaserScan angles are carried in degrees; 360 * (x + pi) / (2 * pi) is   *)
(* then x + 180.                                                           *)
(***************************************************************************)
\* np.arange(lo, hi, step) for step > 0
arange(lo, hi, step) ==
    LET n == IF hi > lo THEN (hi - lo + step - 1) \div step ELSE 0
    IN  [i \in 1..n |-> lo + (i - 1) * step]

\* np.flip
flip(a) == [i \in 1..Len(a) |-> a[Len(a) + 1 - i]]

\* list(zip(a, b))
zip(a, b) ==
    LET n == IF Len(a) < Len(b) THEN Len(a) ELSE Len(b)
    IN  [i \in 1..n |-> <<a[i], b[i]>>]

\* lines 232-237
ScanAngles(scan) ==
    LET xs == arange(scan.angle_min, scan.angle_max, scan.angle_increment)
    IN  [i \in 1..Len(xs) |-> xs[i] + 180]

(***************************************************************************)
(* Inputs                                                                  *)
(***************************************************************************)
MountingAngles == {DEFAULT_SENSOR_MOUNTING_ANGLE, 90}
BlankedOptions == { << >>, << <<-10, 10>> >> }
RangeValues == {5, 15, 50, 150}
AngleIncrements == {360, 180}

RangeSeqs == UNION {[1..n -> RangeValues] : n \in 0..MaxRanges}

LaserScans ==
    {[angle_min |-> -180, angle_max |-> 180, angle_increment |-> inc,
      ranges |-> r] : inc \in AngleIncrements, r \in RangeSeqs}

Repeat(v, n) == [i \in 1..n |-> v]

ObstacleAhead == [x |-> 0, y |-> 30, angle |-> 0, distance |-> 30]
D435States ==
    { [running |-> FALSE, obstacle |-> Repeat(ObstacleAhead, D435_MIN_OBSTACLES + 1)],
      [running |-> TRUE, obstacle |-> Repeat(ObstacleAhead, D435_MIN_OBSTACLES)],
      [running |-> TRUE, obstacle |-> Repeat(ObstacleAhead, D435_MIN_OBSTACLES + 1)] }

(***************************************************************************)
(* TurtleBot4RPLidarProvider: state after __init__ and operations          *)
(***************************************************************************)
LidarInit ==
    /\ running = FALSE
    /\ scans = None
    /\ angles = None
    /\ angles_final = None
    /\ raw_scan = None
    /\ valid_paths = None
    /\ lidar_string = None
    /\ turn_left = << >>
    /\ turn_right = << >>
    /\ advance = << >>
    /\ retreat = FALSE
    /\ raw = None
    /\ sensor_mounting_angle \in MountingAngles
    /\ angles_blanked \in BlankedOptions
    /\ d435_running = FALSE
    /\ d435_obstacle = << >>
    /\ write_to_local_file = FALSE
    /\ filename_current = 0
    /\ files = << >>
    /\ max_file_size_bytes = 1024 * 1024
    /\ call_arg = None
    /\ raised = None
    /\ sweep_pc = "idle"
    /\ pending = None
    /\ observed = None
    /\ last_call = "__init__"

\* start(), lines 204-210
Start ==
    /\ running' = TRUE
    /\ last_call' = "start"
    /\ UNCHANGED <<scans, angles, angles_final, raw_scan, valid_paths,
                   lidar_string, turn_left, turn_right, advance, retreat, raw,
                   sensor_mounting_angle, angles_blanked, d435_running,
                   d435_obstacle, write_to_local_file, filename_current,
                   files, max_file_size_bytes>>

\* stop(), lines 421-426
Stop ==
    /\ running' = FALSE
    /\ last_call' = "stop"
    /\ UNCHANGED <<scans, angles, angles_final, raw_scan, valid_paths,
                   lidar_string, turn_left, turn_right, advance, retreat, raw,
                   sensor_mounting_angle, angles_blanked, d435_running,
                   d435_obstacle, write_to_local_file, filename_current,
                   files, max_file_size_bytes>>

\* _zenoh_processor(None), lines 222-226
ZenohProcessorNone ==
    /\ raw_scan' = None
    /\ lidar_string' = Some(MIGHT_BE_SURROUNDED)
    /\ valid_paths' = Some(<< >>)
    /\ last_call' = "_zenoh_processor(None)"
    /\ UNCHANGED <<running, scans, angles, angles_final, turn_left,
                   turn_right, advance, retreat, raw, sensor_mounting_angle,
                   angles_blanked, d435_running, d435_obstacle,
                   write_to_local_file, filename_current, files,
                   max_file_size_bytes>>

\* mutation of ListenScanWith: a sweep delivered while running is False is
\* dropped
ListenScanWithGated(scan, opened) ==
    \/ /\ running
       /\
           LET recompute == angles = None \/ angles = Some(<< >>)
               new_angles == IF recompute THEN Some(ScanAngles(scan)) ELSE angles
               new_final == IF recompute THEN Some(flip(ScanAngles(scan)))
                            ELSE angles_final
               data == IF new_final # None THEN zip(new_final[1], scan.ranges)
                       ELSE << >>
               raw_rows == RawFrame(data, sensor_mounting_angle)
               complexes == Complexes(data, sensor_mounting_angle, angles_blanked, 1)
                            \o D435Rows(d435_running, d435_obstacle)
               written == write_str_to_file(JsonFrame(raw_rows), filename_current,
                                            files, max_file_size_bytes, opened)
           IN  \E array \in {SortedArray(complexes)} :
               \E ppl \in {PossiblePaths(array)} :
               /\ scans' = Some(scan)
               /\ angles' = new_angles
               /\ angles_final' = new_final
               /\ raw' = Some(raw_rows)
               /\ filename_current' =
                     IF write_to_local_file THEN written.filename_current
                     ELSE filename_current
               /\ files' = IF write_to_local_file THEN written.files ELSE files
               /\ turn_left' = TurnLeftOf(ppl)
               /\ turn_right' = TurnRightOf(ppl)
               /\ advance' = AdvanceOf(ppl)
               /\ retreat' = RetreatOf(ppl)
               /\ raw_scan' = Some(array)
               /\ lidar_string' = Some(generate_movement_string(ppl, AdvanceOf(ppl)))
               /\ valid_paths' = Some(ppl)
               /\ raised' = None
               /\ last_call' = "listen_scan"
               /\ UNCHANGED <<running, sensor_mounting_angle, angles_blanked,
                              d435_running, d435_obstacle, write_to_local_file,
                              max_file_size_bytes>>
    \/ /\ ~running
       /\ last_call' = "listen_scan"
       /\ UNCHANGED <<running, scans, angles, angles_final, raw_scan,
                      valid_paths, lidar_string, turn_left, turn_right,
                      advance, retreat, raw, sensor_mounting_angle,
                      angles_blanked, d435_running, d435_obstacle,
                      write_to_local_file, filename_current, files,
                      max_file_size_bytes, raised>>

\* mutation of ListenScanWith: the write of the frame is not guarded, its
\* failure leaves _path_processor and the results of the sweep are not stored
ListenScanWithUnguarded(scan, opened) ==
    LET recompute == angles = None \/ angles = Some(<< >>)
        new_angles == IF recompute THEN Some(ScanAngles(scan)) ELSE angles
        new_final == IF recompute THEN Some(flip(ScanAngles(scan)))
                     ELSE angles_final
        data == IF new_final # None THEN zip(new_final[1], scan.ranges)
                ELSE << >>
        raw_rows == RawFrame(data, sensor_mounting_angle)
        complexes == Complexes(data, sensor_mounting_angle, angles_blanked, 1)
                     \o D435Rows(d435_running, d435_obstacle)
        written == write_str_to_file(JsonFrame(raw_rows), filename_current,
                                     files, max_file_size_bytes, opened)
        failed == write_to_local_file /\ ~opened
    IN  \E array \in {SortedArray(complexes)} :
        \E ppl \in {PossiblePaths(array)} :
        /\ scans' = Some(scan)
        /\ angles' = new_angles
        /\ angles_final' = new_final
        /\ raw' = Some(raw_rows)
        /\ filename_current' =
              IF write_to_local_file THEN written.filename_current
              ELSE filename_current
        /\ files' = IF write_to_local_file THEN written.files ELSE files
        /\ turn_left' = IF failed THEN turn_left ELSE TurnLeftOf(ppl)
        /\ turn_right' = IF failed THEN turn_right ELSE TurnRightOf(ppl)
        /\ advance' = IF failed THEN advance ELSE AdvanceOf(ppl)
        /\ retreat' = IF failed THEN retreat ELSE RetreatOf(ppl)
        /\ raw_scan' = IF failed THEN raw_scan ELSE Some(array)
        /\ lidar_string' =
              IF failed THEN lidar_string
              ELSE Some(generate_movement_string(ppl, AdvanceOf(ppl)))
        /\ valid_paths' = IF failed THEN valid_paths ELSE Some(ppl)
        /\ raised' = IF failed THEN Some("OSError") ELSE None
        /\ last_call' = "listen_scan"
        /\ UNCHANGED <<running, sensor_mounting_angle, angles_blanked,
                       d435_running, d435_obstacle, write_to_local_file,
                       max_file_size_bytes>>

\* listen_scan(data) with scan = LaserScan.deserialize(payload), lines 199-202,
\* then _zenoh_processor(scan) lines 231-246 and _path_processor lines 261-415.
\* opened: whether the log file could be opened and written.
ListenScanWith(scan, opened) ==
    LET recompute == angles = None \/ angles = Some(<< >>)
        new_angles == IF recompute THEN Some(ScanAngles(scan)) ELSE angles
        new_final == IF recompute THEN Some(flip(ScanAngles(scan)))
                     ELSE angles_final
        data == IF new_final # None THEN zip(new_final[1], scan.ranges)
                ELSE << >>
        raw_rows == RawFrame(data, sensor_mounting_angle)
        complexes == Complexes(data, sensor_mounting_angle, angles_blanked, 1)
                     \o D435Rows(d435_running, d435_obstacle)
        written == write_str_to_file(JsonFrame(raw_rows), filename_current,
                                     files, max_file_size_bytes, opened)
    IN  \E array \in {SortedArray(complexes)} :
        \E ppl \in {PossiblePaths(array)} :
        /\ scans' = Some(scan)
        /\ angles' = new_angles
        /\ angles_final' = new_final
        /\ raw' = Some(raw_rows)
        /\ filename_current' =
              IF write_to_local_file THEN written.filename_current
              ELSE filename_current
        /\ files' = IF write_to_local_file THEN written.files ELSE files
        /\ turn_left' = TurnLeftOf(ppl)
        /\ turn_right' = TurnRightOf(ppl)
        /\ advance' = AdvanceOf(ppl)
        /\ retreat' = RetreatOf(ppl)
        /\ raw_scan' = Some(array)
        /\ lidar_string' = Some(generate_movement_string(ppl, AdvanceOf(ppl)))
        /\ valid_paths' = Some(ppl)
        /\ raised' = None
        /\ last_call' = "listen_scan"
        /\ UNCHANGED <<running, sensor_mounting_angle, angles_blanked,
                       d435_running, d435_obstacle, write_to_local_file,
                       max_file_size_bytes>>

\* The sensor's scan geometry (angle_min, angle_max, angle_increment) is a
\* property of the device: every sweep has the geometry of the first one.
ListenScan ==
    \E scan \in {m \in LaserScans :
                    angles = None \/ angles = Some(ScanAngles(m))} :
        \E opened \in (IF write_to_local_file THEN BOOLEAN ELSE {TRUE}) :
            ListenScanWith(scan, opened)

\* the arguments write_str_to_file is called with: JSON strings and a
\* dictionary
Payloads ==
    {[type |-> "str", value |-> "{}"],
     [type |-> "str", value |-> "{\"test\": \"data1\"}"],
     [type |-> "dict", value |-> "{\"test\": \"data\"}"]}

\* mutation of WriteStrToFile: the type of the argument is not looked at
WriteStrToFileUnchecked ==
    \E payload \in Payloads :
    \E opened \in (IF filename_current = 0 THEN {TRUE} ELSE BOOLEAN) :
        LET written == write_str_to_file(payload.value, filename_current,
                                         files, max_file_size_bytes, opened)
        IN  /\ call_arg' = Some(payload)
            /\ filename_current' = written.filename_current
            /\ files' = written.files
            /\ raised' = IF opened THEN None ELSE Some("OSError")
            /\ last_call' = "write_str_to_file"
            /\ UNCHANGED <<running, scans, angles, angles_final, raw_scan,
                           valid_paths, lidar_string, turn_left, turn_right,
                           advance, retreat, raw, sensor_mounting_angle,
                           angles_blanked, d435_running, d435_obstacle,
                           write_to_local_file, max_file_size_bytes>>

\* write_str_to_file(json_line) called on the provider, lines 164-188.
\* opened: whether the file could be opened and written.
WriteStrToFile ==
    \E payload \in Payloads :
    \E opened \in (IF filename_current = 0 THEN {TRUE} ELSE BOOLEAN) :
        LET written == write_str_to_file(payload.value, filename_current,
                                         files, max_file_size_bytes, opened)
        IN  /\ call_arg' = Some(payload)
            /\ IF payload.type # "str"
               THEN /\ raised' = Some("ValueError")
                    /\ UNCHANGED <<filename_current, files>>
               ELSE /\ filename_current' = written.filename_current
                    /\ files' = written.files
                    /\ raised' = IF opened THEN None ELSE Some("OSError")
            /\ last_call' = "write_str_to_file"
            /\ UNCHANGED <<running, scans, angles, angles_final, raw_scan,
                           valid_paths, lidar_string, turn_left, turn_right,
                           advance, retreat, raw, sensor_mounting_angle,
                           angles_blanked, d435_running, d435_obstacle,
                           write_to_local_file, max_file_size_bytes>>

\* The D435 provider (external) publishes a new running flag and obstacle list
D435Update ==
    \E s \in D435States :
        /\ d435_running' = s.running
        /\ d435_obstacle' = s.obstacle
        /\ last_call' = "d435"
        /\ UNCHANGED <<running, scans, angles, angles_final, raw_scan,
                       valid_paths, lidar_string, turn_left, turn_right,
                       advance, retreat, raw, sensor_mounting_angle,
                       angles_blanked, write_to_local_file, filename_current,
                       files, max_file_size_bytes>>

(***************************************************************************)
(* Odometry providers: OdomProviderBase (TurtleBot4, Go2, Tron) and the    *)
(* G1 override of process_odom.                                            *)
(* Positions are integers in millimetres, move_history is an integer in    *)
(* tenths of a millimetre, yaw values are integers in 1e-4 degree.         *)
(***************************************************************************)
MaxQueue == 2
MaxMessages == 5
MaxUnits == 3

VARIABLES
    variant,                 \* the provider class of this process
    token,                   \* URID / channel / topic was given
    robot_feed,              \* the messages the robot publishes in this run
    odom_reader_thread,      \* self._odom_reader_thread
    odom_processor_thread,   \* self._odom_processor_thread
    stop_event,              \* self._stop_event
    processor_pc,            \* where the processing thread is in its loop
    caller_pc,               \* where the thread that calls start/stop is
    call_effects,            \* what the last start() or stop() call did
    put_count,               \* messages put on the queue so far
    consumed,                \* stamps of the messages taken off the queue
    reads_after_stop,        \* queue reads since the stop flag was set
    last_delta,              \* delta of the last ingest
    zero_run,                \* ingests with delta 0 since the last other one
    largest_delta,           \* the largest delta of the ingests so far
    data_queue,              \* self.data_queue
    body_height_cm,          \* self.body_height_cm
    body_attitude,           \* self.body_attitude
    moving,                  \* self.moving
    previous_x,              \* self.previous_x
    previous_y,              \* self.previous_y
    previous_z,              \* self.previous_z
    move_history,            \* self.move_history
    odom_x,                  \* self.x
    odom_y,                  \* self.y
    odom_z,                  \* self.z
    odom_yaw_0_360,          \* self.odom_yaw_0_360
    odom_yaw_m180_p180,      \* self.odom_yaw_m180_p180
    odom_rockchip_ts,        \* self.odom_rockchip_ts
    odom_subscriber_ts,      \* self.odom_subscriber_ts
    instances,               \* the registry of the singleton decorator
    provider,                \* the instance the latest construction returned
    snapshot,                \* the mapping a caller got from position
    start_pc,                \* where each thread that races through start() is
    processes_alive,         \* acquisition processes alive, referenced or not
    threads_alive            \* processing threads alive, referenced or not

unit_vars == <<token, robot_feed, odom_reader_thread,
               odom_processor_thread, stop_event, processor_pc, caller_pc,
               call_effects, put_count, consumed, reads_after_stop,
               last_delta, zero_run, largest_delta>>

odom_vars == <<variant, data_queue, body_height_cm, body_attitude, moving,
               previous_x, previous_y, previous_z, move_history, odom_x,
               odom_y, odom_z, odom_yaw_0_360, odom_yaw_m180_p180,
               odom_rockchip_ts, odom_subscriber_ts>>

client_vars == <<instances, provider, snapshot, call_arg, raised>>

step_vars == <<sweep_pc, pending, observed, start_pc, processes_alive,
               threads_alive>>

vars == <<lidar_vars, odom_vars, unit_vars, client_vars, step_vars>>

\* RobotState
STANDING == "standing"
SITTING == "sitting"

FULL_TURN == 3600000
MOVING_THRESHOLD == 100
ROUNDING_ONSET == 1398351

\* math.sqrt on the squared lengths the samples produce (floor)
isqrt(n) == CHOOSE r \in 0..1000 : r * r <= n /\ (r + 1) * (r + 1) > n

\* round(yaw_rad * rad_to_deg, 4) for a yaw angle given in 1e-4 degree.
\* rad_to_deg = 57.2958 exceeds 180/pi by the factor 1.00000035756, which
\* moves the rounded value by one unit from 139.8351 degrees on.
yaw_degrees(theta) ==
    IF theta >= ROUNDING_ONSET THEN theta + 1
    ELSE IF theta <= 0 - ROUNDING_ONSET THEN theta - 1
    ELSE theta

\* mutation of yaw_0_360_of: the wrap is also applied to a flip of zero
yaw_0_360_wrap_zero(yaw_m180_p180) ==
    LET flipped == 0 - yaw_m180_p180
    IN  IF flipped <= 0 THEN flipped + FULL_TURN ELSE flipped

\* odom_provider_base.py lines 175-179, unitree_g1_odom_provider.py 193-197
yaw_0_360_of(yaw_m180_p180) ==
    LET flipped == 0 - yaw_m180_p180
    IN  IF flipped < 0 THEN flipped + FULL_TURN ELSE flipped

\* mutation of decay: the weights of the kernel are exchanged
decay_swapped(delta, history) == (3 * delta + 7 * history) \div 10

\* mutation of decay: the history is never forgotten
decay_keeps_history(delta, history) == (7 * delta + 10 * history) \div 10

\* the decay kernel: 0.7 * delta + 0.3 * self.move_history
decay(delta, history) == (7 * delta + 3 * history) \div 10

\* the count of queue reads made while the stop flag is set
count_read(n, stopped) == IF stopped /\ n < 2 THEN n + 1 ELSE n

\* round(z * 100.0) for z in millimetres: Python rounds halves to even
round_cm(z_mm) ==
    LET q == z_mm \div 10
        r == z_mm % 10
    IN  IF r > 5 THEN q + 1
        ELSE IF r < 5 THEN q
        ELSE IF q % 2 = 0 THEN q ELSE q + 1

\* _update_body_state: base (TurtleBot4) no-op, Go2 and Tron thresholds
STANDING_ABOVE_CM == [go2 |-> 24, tron |-> 60]
SITTING_ABOVE_CM == 3

update_body_state(cls, position, height, attitude) ==
    IF cls \in {"go2", "tron"}
    THEN LET h == round_cm(position[3])
         IN  [body_height_cm |-> h,
              body_attitude |->
                  IF h > STANDING_ABOVE_CM[cls] THEN Some(STANDING)
                  ELSE IF h > SITTING_ABOVE_CM THEN Some(SITTING)
                  ELSE attitude]
    ELSE [body_height_cm |-> height, body_attitude |-> attitude]

Variants == {"turtlebot4", "go2", "tron", "g1"}
PositionSamples == {<<0, 0, 0>>, <<0, 0, 5>>, <<20, 0, 300>>}
YawSamples == {-1800000, -1, 0, 900000, 1800000}
StampSamples == {100}
LocalTimes == {1000}

\* a pose sample as the acquisition unit enqueues it: position in mm, the
\* yaw the orientation (quaternion or imu_state.rpy[2]) stands for, and the
\* publisher's time stamp
OdomMessages ==
    {[position |-> pos, yaw |-> th, stamp |-> st] :
        pos \in PositionSamples, th \in YawSamples, st \in StampSamples}

\* the feed of the runs that exercise the ingest: every position, and every
\* yaw at the origin
OdomFeed ==
    {m \in OdomMessages : m.position = <<0, 0, 0>> \/ m.yaw = 0}

\* a message with a header and nothing else: reading its pose (base) or its
\* position (G1) raises AttributeError
MalformedMessages == {[stamp |-> st] : st \in StampSamples}

well_formed(msg) == "position" \in DOMAIN msg

\* the feed of the runs with a reader of position: a turn on the spot and a
\* move
ReaderFeed ==
    {[position |-> <<0, 0, 0>>, yaw |-> th, stamp |-> st] :
        th \in {0, 900000}, st \in StampSamples}
        \cup {[position |-> <<20, 0, 300>>, yaw |-> 0, stamp |-> st] :
                  st \in StampSamples}

\* the feed of the runs that exercise start() and stop()
LifecycleFeed ==
    {[position |-> <<20, 0, 300>>, yaw |-> 0, stamp |-> st] :
        st \in StampSamples} \cup MalformedMessages

\* OdomProviderBase.__init__, lines 36-56
OdomFieldsInit ==
    /\ data_queue = << >>
    /\ body_height_cm = 0
    /\ body_attitude = None
    /\ moving = FALSE
    /\ previous_x = 0
    /\ previous_y = 0
    /\ previous_z = 0
    /\ move_history = 0
    /\ odom_x = 0
    /\ odom_y = 0
    /\ odom_z = 0
    /\ odom_yaw_0_360 = 0
    /\ odom_yaw_m180_p180 = 0
    /\ odom_rockchip_ts = 0
    /\ odom_subscriber_ts = 0

\* the Motion/Attitude fields of a provider
motion_fields ==
    <<body_height_cm, body_attitude, moving, previous_x, previous_y,
      previous_z, move_history, odom_x, odom_y, odom_z, odom_yaw_0_360,
      odom_yaw_m180_p180, odom_rockchip_ts, odom_subscriber_ts>>

\* the LIDAR provider's fields
lidar_fields ==
    <<running, scans, angles, angles_final, raw_scan, valid_paths,
      lidar_string, turn_left, turn_right, advance, retreat, raw,
      sensor_mounting_angle, angles_blanked, d435_running, d435_obstacle,
      write_to_local_file, filename_current, files, max_file_size_bytes>>

\* mutation of start: the acquisition process is created although one is alive
start_ignores_live_reader(cls, tok, reader, processor) ==
    IF cls # "turtlebot4" /\ ~tok
    THEN [reader |-> reader, processor |-> processor,
          processes |-> 0, threads |-> 0]
    ELSE [reader |-> "alive", processor |-> "alive", processes |-> 1,
          threads |-> IF processor = "alive" THEN 0 ELSE 1]

\* mutation of start: the processing thread is created although one is alive
start_ignores_live_processor(cls, tok, reader, processor) ==
    IF reader = "alive" \/ (cls # "turtlebot4" /\ ~tok)
    THEN [reader |-> reader, processor |-> processor,
          processes |-> 0, threads |-> 0]
    ELSE [reader |-> "alive", processor |-> "alive", processes |-> 1,
          threads |-> 1]

\* mutation of start: Go2, G1 and Tron start without their channel or topic
start_ignores_token(cls, tok, reader, processor) ==
    IF reader = "alive"
    THEN [reader |-> reader, processor |-> processor,
          processes |-> 0, threads |-> 0]
    ELSE [reader |-> "alive", processor |-> "alive", processes |-> 1,
          threads |-> IF processor = "alive" THEN 0 ELSE 1]

\* start() of the four variants: what becomes of the two units, and how many
\* processes and threads the call creates.  TurtleBot4OdomProvider.start has
\* no check of its URID.
start(cls, tok, reader, processor) ==
    IF reader = "alive"
    THEN [reader |-> reader, processor |-> processor,
          processes |-> 0, threads |-> 0]
    ELSE IF cls # "turtlebot4" /\ ~tok
    THEN [reader |-> reader, processor |-> processor,
          processes |-> 0, threads |-> 0]
    ELSE [reader |-> "alive", processor |-> "alive", processes |-> 1,
          threads |-> IF processor = "alive" THEN 0 ELSE 1]

\* the call of a class decorated with @singleton: the instance registered
\* for the class when there is one, else a new one, which is registered and
\* initialised
singleton(registry, cls, fresh) ==
    IF cls \in DOMAIN registry
    THEN [instances |-> registry, instance |-> registry[cls],
          constructs |-> FALSE]
    ELSE [instances |-> (cls :> fresh) @@ registry, instance |-> fresh,
          constructs |-> TRUE]

\* the threads that call start() on the provider concurrently
Callers == {1, 2}

\* the first construction in the process.  The variant's __init__: the base
\* fields, then self.start()
Constructed(cls, tok) ==
    LET s == start(cls, tok, "none", "none")
        got == singleton(<< >>, cls, 1)
    IN  /\ instances = got.instances
        /\ provider = got.instance
        /\ snapshot = None
        /\ variant = cls
        /\ token = tok
        /\ OdomFieldsInit
        /\ odom_reader_thread = s.reader
        /\ odom_processor_thread = s.processor
        /\ stop_event = FALSE
        /\ processor_pc = "check"
        /\ caller_pc = "idle"
        /\ call_effects = [processes |-> s.processes, threads |-> s.threads,
                           terminates |-> 0, reader_joins |-> 0,
                           processor_joins |-> 0]
        /\ put_count = 0
        /\ consumed = << >>
        /\ reads_after_stop = 0
        /\ last_delta = 0
        /\ zero_run = 0
        /\ largest_delta = 0
        /\ start_pc = [c \in Callers |-> "idle"]
        /\ processes_alive = s.processes
        /\ threads_alive = s.threads

\* __init__ run on an instance the decorator has just made
InitCall(tok) ==
    LET s == start(variant, tok, "none", "none")
    IN  /\ token' = tok
        /\ data_queue' = << >>
        /\ body_height_cm' = 0
        /\ body_attitude' = None
        /\ moving' = FALSE
        /\ previous_x' = 0
        /\ previous_y' = 0
        /\ previous_z' = 0
        /\ move_history' = 0
        /\ odom_x' = 0
        /\ odom_y' = 0
        /\ odom_z' = 0
        /\ odom_yaw_0_360' = 0
        /\ odom_yaw_m180_p180' = 0
        /\ odom_rockchip_ts' = 0
        /\ odom_subscriber_ts' = 0
        /\ odom_reader_thread' = s.reader
        /\ odom_processor_thread' = s.processor
        /\ stop_event' = FALSE
        /\ processor_pc' = "check"
        /\ call_effects' = [processes |-> s.processes, threads |-> s.threads,
                            terminates |-> 0, reader_joins |-> 0,
                            processor_joins |-> 0]
        /\ put_count' = 0
        /\ consumed' = << >>
        /\ reads_after_stop' = 0
        /\ last_delta' = 0
        /\ zero_run' = 0
        /\ largest_delta' = 0
        /\ UNCHANGED <<variant, robot_feed, caller_pc>>

\* mutation of Construct: the class is not a singleton, every construction
\* makes and initialises an instance
ConstructUndecorated ==
    \E tok \in BOOLEAN :
        /\ caller_pc = "idle"
        /\ instances' = instances
        /\ provider' = 2
        /\ InitCall(tok)
        /\ last_call' = IF tok THEN "construct(token)" ELSE "construct()"
        /\ UNCHANGED <<snapshot, call_arg, raised>>

\* a further construction of the variant's class, with or without a token:
\* TurtleBot4OdomProvider(URID=...), and the like for the other variants
Construct ==
    \E tok \in BOOLEAN :
        LET got == singleton(instances, variant, provider + 1)
        IN  /\ caller_pc = "idle"
            /\ instances' = got.instances
            /\ provider' = got.instance
            /\ IF got.constructs
               THEN InitCall(tok)
               ELSE UNCHANGED <<odom_vars, unit_vars>>
            /\ last_call' = IF tok THEN "construct(token)" ELSE "construct()"
            /\ UNCHANGED <<snapshot, call_arg, raised>>

\* the position property: a new dictionary with the current values
position ==
    [odom_x |-> odom_x,
     odom_y |-> odom_y,
     moving |-> moving,
     odom_yaw_0_360 |-> odom_yaw_0_360,
     odom_yaw_m180_p180 |-> odom_yaw_m180_p180,
     body_height_cm |-> body_height_cm,
     body_attitude |-> body_attitude,
     odom_rockchip_ts |-> odom_rockchip_ts,
     odom_subscriber_ts |-> odom_subscriber_ts]

\* mutation of StartCall: start() clears the stop flag before it creates the
\* units
StartCallClearsStop ==
    /\ caller_pc = "idle"
    /\ LET s == start(variant, token, odom_reader_thread,
                      odom_processor_thread)
       IN  /\ odom_reader_thread' = s.reader
           /\ odom_processor_thread' = s.processor
           /\ processor_pc' = IF s.threads > 0 THEN "check" ELSE processor_pc
           /\ call_effects' = [processes |-> s.processes,
                               threads |-> s.threads, terminates |-> 0,
                               reader_joins |-> 0, processor_joins |-> 0]
    /\ stop_event' = FALSE
    /\ last_call' = "start"
    /\ UNCHANGED <<odom_vars, token, robot_feed, caller_pc,
                   put_count, consumed, reads_after_stop, last_delta,
                   zero_run, largest_delta>>

\* start() called on the constructed provider
StartCall ==
    /\ caller_pc = "idle"
    /\ LET s == start(variant, token, odom_reader_thread,
                      odom_processor_thread)
       IN  /\ odom_reader_thread' = s.reader
           /\ odom_processor_thread' = s.processor
           /\ processor_pc' = IF s.threads > 0 THEN "check" ELSE processor_pc
           /\ call_effects' = [processes |-> s.processes,
                               threads |-> s.threads, terminates |-> 0,
                               reader_joins |-> 0, processor_joins |-> 0]
    /\ last_call' = "start"
    /\ UNCHANGED <<odom_vars, token, robot_feed, stop_event, caller_pc,
                   put_count, consumed, reads_after_stop, last_delta,
                   zero_run, largest_delta>>

\* mutation of StopCall: the acquisition process is neither terminated nor
\* joined
StopCallLeavesReader ==
    /\ caller_pc = "idle"
    /\ stop_event' = TRUE
    /\ call_effects' = [processes |-> 0, threads |-> 0, terminates |-> 0,
                        reader_joins |-> 0, processor_joins |-> 0]
    /\ caller_pc' =
          IF odom_processor_thread = "none" THEN "idle" ELSE "join_processor"
    /\ last_call' =
          IF odom_processor_thread = "none" THEN "stop" ELSE "stop:join"
    /\ UNCHANGED <<odom_vars, token, robot_feed, odom_reader_thread,
                   odom_processor_thread, processor_pc, put_count, consumed,
                   reads_after_stop, last_delta, zero_run, largest_delta>>

\* stop() up to its join of the processing thread: odom_provider_base.py
\* lines 239-246
StopCall ==
    /\ caller_pc = "idle"
    /\ stop_event' = TRUE
    /\ odom_reader_thread' =
          IF odom_reader_thread = "none" THEN "none" ELSE "dead"
    /\ call_effects' =
          [processes |-> 0, threads |-> 0,
           terminates |-> IF odom_reader_thread = "none" THEN 0 ELSE 1,
           reader_joins |-> IF odom_reader_thread = "none" THEN 0 ELSE 1,
           processor_joins |-> 0]
    /\ caller_pc' =
          IF odom_processor_thread = "none" THEN "idle" ELSE "join_processor"
    /\ last_call' =
          IF odom_processor_thread = "none" THEN "stop" ELSE "stop:join"
    /\ UNCHANGED <<odom_vars, token, robot_feed, odom_processor_thread,
                   processor_pc, put_count, consumed, reads_after_stop,
                   last_delta, zero_run, largest_delta>>

\* the join of the processing thread returns, and stop() with it: lines
\* 246-248
StopJoin ==
    /\ caller_pc = "join_processor"
    /\ odom_processor_thread # "alive"
    /\ call_effects' = [call_effects EXCEPT !.processor_joins = @ + 1]
    /\ caller_pc' = "idle"
    /\ last_call' = "stop"
    /\ UNCHANGED <<odom_vars, token, robot_feed, odom_reader_thread,
                   odom_processor_thread, stop_event, processor_pc,
                   put_count, consumed, reads_after_stop, last_delta,
                   zero_run, largest_delta>>

\* the acquisition process ends by itself: no URID (TurtleBot4), or the
\* transport could not be opened
ReaderExit ==
    /\ odom_reader_thread = "alive"
    /\ put_count = 0
    /\ odom_reader_thread' = "dead"
    /\ last_call' = "reader_exit"
    /\ UNCHANGED <<odom_vars, token, robot_feed, odom_processor_thread,
                   stop_event, processor_pc, caller_pc, call_effects,
                   put_count, consumed, reads_after_stop, last_delta,
                   zero_run, largest_delta>>

\* the handler of the acquisition unit: data_queue.put(data)
ReaderPut ==
    \E msg \in robot_feed :
        /\ odom_reader_thread = "alive"
        /\ token
        /\ Len(data_queue) < MaxQueue
        /\ put_count < MaxMessages
        /\ data_queue' =
              Append(data_queue, [msg EXCEPT !.stamp = @ + put_count])
        /\ put_count' = put_count + 1
        /\ last_call' = "put"
        /\ UNCHANGED <<variant, motion_fields, token, robot_feed,
                       odom_reader_thread, odom_processor_thread, stop_event,
                       processor_pc, caller_pc, call_effects, consumed,
                       reads_after_stop, last_delta, zero_run, largest_delta>>

\* mutation of queue_get: the newest message is taken first
queue_get_newest(q) ==
    [item |-> q[Len(q)], rest |-> SubSeq(q, 1, Len(q) - 1)]

\* data_queue.get on a queue that holds a message
queue_get(q) == [item |-> Head(q), rest |-> Tail(q)]

\* mutation of LoopCheck: the loop does not look at the stop flag
LoopCheckIgnoresStop ==
    /\ odom_processor_thread = "alive"
    /\ processor_pc = "check"
    /\ processor_pc' = "get"
    /\ last_call' = "loop"
    /\ UNCHANGED <<odom_vars, token, robot_feed, odom_reader_thread,
                   odom_processor_thread, stop_event, caller_pc,
                   call_effects, put_count, consumed, reads_after_stop,
                   last_delta, zero_run, largest_delta>>

\* "while not self._stop_event.is_set()": the head of the loop
LoopCheck ==
    /\ odom_processor_thread = "alive"
    /\ processor_pc = "check"
    /\ IF stop_event
       THEN odom_processor_thread' = "dead" /\ UNCHANGED processor_pc
       ELSE processor_pc' = "get" /\ UNCHANGED odom_processor_thread
    /\ last_call' = "loop"
    /\ UNCHANGED <<odom_vars, token, robot_feed, odom_reader_thread,
                   stop_event, caller_pc, call_effects, put_count, consumed,
                   reads_after_stop, last_delta, zero_run, largest_delta>>

\* mutation of ProcessOdom: the first sample only sets the previous position,
\* its delta is taken as zero
ProcessOdomSeedsPrevious ==
    /\ odom_processor_thread = "alive"
    /\ processor_pc = "get"
    /\ data_queue # << >>
    /\ well_formed(queue_get(data_queue).item)
    /\ \E now \in LocalTimes :
       LET got == queue_get(data_queue)
           pose_data == got.item
           pos == pose_data.position
           body == update_body_state(variant, pos, body_height_cm,
                                     body_attitude)
           dx == (pos[1] - previous_x) * (pos[1] - previous_x)
           dy == (pos[2] - previous_y) * (pos[2] - previous_y)
           dz == (pos[3] - previous_z) * (pos[3] - previous_z)
           delta == IF consumed = << >> THEN 0
                    ELSE isqrt(dx + dy + dz) * 10
           history == decay(delta, move_history)
           yaw == yaw_degrees(pose_data.yaw)
       IN  /\ data_queue' = got.rest
           /\ consumed' = Append(consumed, pose_data.stamp)
           /\ odom_rockchip_ts' = pose_data.stamp
           /\ odom_subscriber_ts' = now
           /\ body_height_cm' = body.body_height_cm
           /\ body_attitude' =
                 IF variant = "g1" THEN Some(STANDING) ELSE body.body_attitude
           /\ previous_x' = pos[1]
           /\ previous_y' = pos[2]
           /\ previous_z' = pos[3]
           /\ move_history' = history
           /\ moving' = (delta > MOVING_THRESHOLD \/ history > MOVING_THRESHOLD)
           /\ odom_yaw_m180_p180' = yaw
           /\ odom_yaw_0_360' = yaw_0_360_of(yaw)
           /\ odom_x' = pos[1]
           /\ odom_y' = pos[2]
           /\ odom_z' = IF variant = "g1" THEN pos[3] ELSE odom_z
           /\ last_delta' = delta
           /\ zero_run' = IF delta = 0 THEN zero_run + 1 ELSE 0
           /\ largest_delta' = IF delta > largest_delta THEN delta
                              ELSE largest_delta
    /\ processor_pc' = "check"
    /\ reads_after_stop' = count_read(reads_after_stop, stop_event)
    /\ last_call' = "process_odom"
    /\ UNCHANGED <<variant, token, robot_feed, odom_reader_thread,
                   odom_processor_thread, stop_event, caller_pc,
                   call_effects, put_count>>

\* one iteration of the process_odom loop that receives a message:
\* odom_provider_base.py lines 113-186 (TurtleBot4, Go2, Tron) and
\* unitree_g1_odom_provider.py lines 147-209 (G1)
ProcessOdom ==
    /\ odom_processor_thread = "alive"
    /\ processor_pc = "get"
    /\ data_queue # << >>
    /\ well_formed(queue_get(data_queue).item)
    /\ \E now \in LocalTimes :
       LET got == queue_get(data_queue)
           pose_data == got.item
           pos == pose_data.position
           body == update_body_state(variant, pos, body_height_cm,
                                     body_attitude)
           dx == (pos[1] - previous_x) * (pos[1] - previous_x)
           dy == (pos[2] - previous_y) * (pos[2] - previous_y)
           dz == (pos[3] - previous_z) * (pos[3] - previous_z)
           delta == isqrt(dx + dy + dz) * 10
           history == decay(delta, move_history)
           yaw == yaw_degrees(pose_data.yaw)
       IN  /\ data_queue' = got.rest
           /\ consumed' = Append(consumed, pose_data.stamp)
           /\ odom_rockchip_ts' = pose_data.stamp
           /\ odom_subscriber_ts' = now
           /\ body_height_cm' = body.body_height_cm
           /\ body_attitude' =
                 IF variant = "g1" THEN Some(STANDING) ELSE body.body_attitude
           /\ previous_x' = pos[1]
           /\ previous_y' = pos[2]
           /\ previous_z' = pos[3]
           /\ move_history' = history
           /\ moving' = (delta > MOVING_THRESHOLD \/ history > MOVING_THRESHOLD)
           /\ odom_yaw_m180_p180' = yaw
           /\ odom_yaw_0_360' = yaw_0_360_of(yaw)
           /\ odom_x' = pos[1]
           /\ odom_y' = pos[2]
           /\ odom_z' = IF variant = "g1" THEN pos[3] ELSE odom_z
           /\ last_delta' = delta
           /\ zero_run' = IF delta = 0 THEN zero_run + 1 ELSE 0
           /\ largest_delta' = IF delta > largest_delta THEN delta
                              ELSE largest_delta
    /\ processor_pc' = "check"
    /\ reads_after_stop' = count_read(reads_after_stop, stop_event)
    /\ last_call' = "process_odom"
    /\ UNCHANGED <<variant, token, robot_feed, odom_reader_thread,
                   odom_processor_thread, stop_event, caller_pc,
                   call_effects, put_count>>

\* one iteration that receives a malformed message: the AttributeError is
\* raised outside the try of the queue read and ends the thread.  G1 has
\* stored the two time stamps by then (lines 153-156).
ProcessOdomMalformed ==
    /\ odom_processor_thread = "alive"
    /\ processor_pc = "get"
    /\ data_queue # << >>
    /\ ~well_formed(queue_get(data_queue).item)
    /\ \E now \in LocalTimes :
       LET got == queue_get(data_queue)
       IN  /\ data_queue' = got.rest
           /\ consumed' = Append(consumed, got.item.stamp)
           /\ odom_rockchip_ts' =
                 IF variant = "g1" THEN got.item.stamp ELSE odom_rockchip_ts
           /\ odom_subscriber_ts' =
                 IF variant = "g1" THEN now ELSE odom_subscriber_ts
    /\ odom_processor_thread' = "dead"
    /\ processor_pc' = "check"
    /\ reads_after_stop' = count_read(reads_after_stop, stop_event)
    /\ last_call' = "process_odom:raise"
    /\ UNCHANGED <<variant, body_height_cm, body_attitude, moving,
                   previous_x, previous_y, previous_z, move_history, odom_x,
                   odom_y, odom_z, odom_yaw_0_360, odom_yaw_m180_p180, token,
                   robot_feed, odom_reader_thread, stop_event, caller_pc,
                   call_effects, put_count, last_delta, zero_run, largest_delta>>

\* mutation of ProcessOdomTimeout: a timeout refreshes the local time stamp
ProcessOdomTimeoutStamps ==
    /\ odom_processor_thread = "alive"
    /\ processor_pc = "get"
    /\ data_queue = << >>
    /\ processor_pc' = "check"
    /\ \E now \in LocalTimes : odom_subscriber_ts' = now
    /\ reads_after_stop' = count_read(reads_after_stop, stop_event)
    /\ last_call' = "timeout"
    /\ UNCHANGED <<variant, data_queue, body_height_cm, body_attitude,
                   moving, previous_x, previous_y, previous_z, move_history,
                   odom_x, odom_y, odom_z, odom_yaw_0_360,
                   odom_yaw_m180_p180, odom_rockchip_ts, token, robot_feed,
                   odom_reader_thread, odom_processor_thread, stop_event,
                   caller_pc, call_effects, put_count, consumed, last_delta,
                   zero_run, largest_delta>>

\* one iteration of the process_odom loop whose queue read times out
ProcessOdomTimeout ==
    /\ odom_processor_thread = "alive"
    /\ processor_pc = "get"
    /\ data_queue = << >>
    /\ processor_pc' = "check"
    /\ reads_after_stop' = count_read(reads_after_stop, stop_event)
    /\ last_call' = "timeout"
    /\ UNCHANGED <<odom_vars, token, robot_feed, odom_reader_thread,
                   odom_processor_thread, stop_event, caller_pc,
                   call_effects, put_count, consumed, last_delta, zero_run, largest_delta>>

\* the first part of an ingest, up to the assignment of odom_yaw_m180_p180:
\* odom_provider_base.py lines 114-170, unitree_g1_odom_provider.py 148-190
IngestBegin ==
    /\ odom_processor_thread = "alive"
    /\ processor_pc = "get"
    /\ data_queue # << >>
    /\ well_formed(queue_get(data_queue).item)
    /\ \E now \in LocalTimes :
       LET got == queue_get(data_queue)
           pose_data == got.item
           pos == pose_data.position
           body == update_body_state(variant, pos, body_height_cm,
                                     body_attitude)
           dx == (pos[1] - previous_x) * (pos[1] - previous_x)
           dy == (pos[2] - previous_y) * (pos[2] - previous_y)
           dz == (pos[3] - previous_z) * (pos[3] - previous_z)
           delta == isqrt(dx + dy + dz) * 10
           history == decay(delta, move_history)
       IN  /\ data_queue' = got.rest
           /\ consumed' = Append(consumed, pose_data.stamp)
           /\ odom_rockchip_ts' = pose_data.stamp
           /\ odom_subscriber_ts' = now
           /\ body_height_cm' = body.body_height_cm
           /\ body_attitude' = body.body_attitude
           /\ previous_x' = pos[1]
           /\ previous_y' = pos[2]
           /\ previous_z' = pos[3]
           /\ move_history' = history
           /\ moving' = (delta > MOVING_THRESHOLD \/ history > MOVING_THRESHOLD)
           /\ odom_yaw_m180_p180' = yaw_degrees(pose_data.yaw)
           /\ last_delta' = delta
           /\ zero_run' = IF delta = 0 THEN zero_run + 1 ELSE 0
           /\ largest_delta' = IF delta > largest_delta THEN delta
                              ELSE largest_delta
    /\ processor_pc' = "flip"
    /\ reads_after_stop' = count_read(reads_after_stop, stop_event)
    /\ last_call' = "process_odom:yaw_m180_p180"
    /\ UNCHANGED <<variant, odom_x, odom_y, odom_z, odom_yaw_0_360, token,
                   robot_feed, odom_reader_thread, odom_processor_thread,
                   stop_event, caller_pc, call_effects, put_count>>

\* the second convention is computed from the stored first one and assigned:
\* odom_provider_base.py lines 175-179, unitree_g1_odom_provider.py 193-197
IngestFlip ==
    /\ odom_processor_thread = "alive"
    /\ processor_pc = "flip"
    /\ odom_yaw_0_360' = yaw_0_360_of(odom_yaw_m180_p180)
    /\ processor_pc' = "xy"
    /\ last_call' = "process_odom:yaw_0_360"
    /\ UNCHANGED <<variant, data_queue, body_height_cm, body_attitude,
                   moving, previous_x, previous_y, previous_z, move_history,
                   odom_x, odom_y, odom_z, odom_yaw_m180_p180,
                   odom_rockchip_ts, odom_subscriber_ts, token, robot_feed,
                   odom_reader_thread, odom_processor_thread, stop_event,
                   caller_pc, call_effects, put_count, consumed,
                   reads_after_stop, last_delta, zero_run, largest_delta>>

\* the end of an ingest, the position of the sample is stored:
\* odom_provider_base.py lines 182-183; G1 also stores z and sets the
\* attitude, unitree_g1_odom_provider.py lines 200-205
IngestEnd ==
    /\ odom_processor_thread = "alive"
    /\ processor_pc = "xy"
    /\ odom_x' = previous_x
    /\ odom_y' = previous_y
    /\ odom_z' = IF variant = "g1" THEN previous_z ELSE odom_z
    /\ body_attitude' =
          IF variant = "g1" THEN Some(STANDING) ELSE body_attitude
    /\ processor_pc' = "check"
    /\ last_call' = "process_odom"
    /\ UNCHANGED <<variant, data_queue, body_height_cm, moving, previous_x,
                   previous_y, previous_z, move_history, odom_yaw_0_360,
                   odom_yaw_m180_p180, odom_rockchip_ts, odom_subscriber_ts,
                   token, robot_feed, odom_reader_thread,
                   odom_processor_thread, stop_event, caller_pc,
                   call_effects, put_count, consumed, reads_after_stop,
                   last_delta, zero_run, largest_delta>>

\* mutation of PositionRead: the values of the two yaws are exchanged
PositionReadYawsExchanged ==
    /\ snapshot' = Some([position EXCEPT
                            !.odom_yaw_0_360 = odom_yaw_m180_p180,
                            !.odom_yaw_m180_p180 = odom_yaw_0_360])
    /\ last_call' = "position"
    /\ UNCHANGED <<odom_vars, unit_vars, instances, provider, call_arg,
                   raised>>

\* a caller reads provider.position and keeps the mapping
PositionRead ==
    /\ snapshot' = Some(position)
    /\ last_call' = "position"
    /\ UNCHANGED <<odom_vars, unit_vars, instances, provider, call_arg,
                   raised>>

\* the caller writes into the mapping it got: position["odom_x"] = ...,
\* position["note"] = ...
SnapshotMutate ==
    /\ snapshot # None
    /\ \E key \in {"odom_x", "note"} :
          snapshot' = Some((key :> "mutated") @@ snapshot[1])
    /\ last_call' = "mutate"
    /\ UNCHANGED <<odom_vars, unit_vars, instances, provider, call_arg,
                   raised>>

(***************************************************************************)
(* Specifications                                                          *)
(***************************************************************************)
\* the LIDAR provider alone; the odometry provider stays as constructed
LidarSpecInit ==
    /\ LidarInit
    /\ robot_feed = OdomFeed
    /\ Constructed("turtlebot4", TRUE)

LidarNext ==
    \/ ZenohProcessorNone /\ UNCHANGED <<odom_vars, unit_vars, client_vars, step_vars>>
    \/ ListenScan /\ UNCHANGED <<odom_vars, unit_vars, client_vars, step_vars>>
    \/ D435Update /\ UNCHANGED <<odom_vars, unit_vars, client_vars, step_vars>>

LidarSpec == LidarSpecInit /\ [][LidarNext]_vars

\* one odometry provider with its two units running; the LIDAR state stays
\* as constructed
OdomInit ==
    /\ LidarInit
    /\ sensor_mounting_angle = DEFAULT_SENSOR_MOUNTING_ANGLE
    /\ angles_blanked = << >>
    /\ robot_feed = OdomFeed
    /\ \E cls \in Variants : Constructed(cls, TRUE)

OdomNext ==
    \/ ReaderPut /\ UNCHANGED <<lidar_fields, client_vars, step_vars>>
    \/ LoopCheck /\ UNCHANGED <<lidar_fields, client_vars, step_vars>>
    \/ ProcessOdom /\ UNCHANGED <<lidar_fields, client_vars, step_vars>>
    \/ ProcessOdomTimeout /\ UNCHANGED <<lidar_fields, client_vars, step_vars>>

OdomSpec == OdomInit /\ [][OdomNext]_vars

\* one odometry provider, with or without its token, under start() and
\* stop() calls, with a feed that holds a malformed message
LifecycleInit ==
    /\ LidarInit
    /\ sensor_mounting_angle = DEFAULT_SENSOR_MOUNTING_ANGLE
    /\ angles_blanked = << >>
    /\ robot_feed = LifecycleFeed
    /\ \E cls \in Variants : \E tok \in BOOLEAN : Constructed(cls, tok)

LifecycleNext ==
    \/ Construct /\ UNCHANGED <<lidar_fields, step_vars>>
    \/ StartCall /\ UNCHANGED <<lidar_fields, client_vars, step_vars>>
    \/ StopCall /\ UNCHANGED <<lidar_fields, client_vars, step_vars>>
    \/ StopJoin /\ UNCHANGED <<lidar_fields, client_vars, step_vars>>
    \/ ReaderExit /\ UNCHANGED <<lidar_fields, client_vars, step_vars>>
    \/ ReaderPut /\ UNCHANGED <<lidar_fields, client_vars, step_vars>>
    \/ LoopCheck /\ UNCHANGED <<lidar_fields, client_vars, step_vars>>
    \/ ProcessOdom /\ UNCHANGED <<lidar_fields, client_vars, step_vars>>
    \/ ProcessOdomMalformed /\ UNCHANGED <<lidar_fields, client_vars, step_vars>>
    \/ ProcessOdomTimeout /\ UNCHANGED <<lidar_fields, client_vars, step_vars>>

LifecycleSpec == LifecycleInit /\ [][LifecycleNext]_vars

\* the same, with the processing thread and the joining caller scheduled
LifecycleFairSpec ==
    /\ LifecycleSpec
    /\ WF_vars(LoopCheck /\ UNCHANGED <<lidar_fields, client_vars, step_vars>>)
    /\ WF_vars(ProcessOdom /\ UNCHANGED <<lidar_fields, client_vars, step_vars>>)
    /\ WF_vars(ProcessOdomMalformed
                  /\ UNCHANGED <<lidar_fields, client_vars, step_vars>>)
    /\ WF_vars(ProcessOdomTimeout
                  /\ UNCHANGED <<lidar_fields, client_vars, step_vars>>)
    /\ WF_vars(StopJoin /\ UNCHANGED <<lidar_fields, client_vars, step_vars>>)

\* one odometry provider whose ingest is taken assignment by assignment, and
\* a caller that reads position while the processing thread runs
ReaderInit ==
    /\ LidarInit
    /\ sensor_mounting_angle = DEFAULT_SENSOR_MOUNTING_ANGLE
    /\ angles_blanked = << >>
    /\ robot_feed = ReaderFeed
    /\ \E cls \in Variants : Constructed(cls, TRUE)

ReaderNext ==
    \/ ReaderPut /\ UNCHANGED <<lidar_fields, client_vars, step_vars>>
    \/ LoopCheck /\ UNCHANGED <<lidar_fields, client_vars, step_vars>>
    \/ IngestBegin /\ UNCHANGED <<lidar_fields, client_vars, step_vars>>
    \/ IngestFlip /\ UNCHANGED <<lidar_fields, client_vars, step_vars>>
    \/ IngestEnd /\ UNCHANGED <<lidar_fields, client_vars, step_vars>>
    \/ ProcessOdomTimeout /\ UNCHANGED <<lidar_fields, client_vars, step_vars>>
    \/ PositionRead /\ UNCHANGED <<lidar_fields, step_vars>>
    \/ SnapshotMutate /\ UNCHANGED <<lidar_fields, step_vars>>

ReaderSpec == ReaderInit /\ [][ReaderNext]_vars

\* the LIDAR provider constructed with a mounting offset of the caller's
\* choice (lines 62, 95: any float is taken), under start(), stop() and sweeps
LidarRunInit ==
    /\ running = FALSE
    /\ scans = None
    /\ angles = None
    /\ angles_final = None
    /\ raw_scan = None
    /\ valid_paths = None
    /\ lidar_string = None
    /\ turn_left = << >>
    /\ turn_right = << >>
    /\ advance = << >>
    /\ retreat = FALSE
    /\ raw = None
    /\ sensor_mounting_angle \in MountingAngles \cup {-90, -540, 540}
    /\ angles_blanked = << >>
    /\ d435_running = FALSE
    /\ d435_obstacle = << >>
    /\ write_to_local_file = FALSE
    /\ filename_current = 0
    /\ files = << >>
    /\ max_file_size_bytes = 1024 * 1024
    /\ call_arg = None
    /\ raised = None
    /\ sweep_pc = "idle"
    /\ pending = None
    /\ observed = None
    /\ last_call = "__init__"
    /\ robot_feed = OdomFeed
    /\ Constructed("turtlebot4", TRUE)

LidarRunNext ==
    \/ Start /\ UNCHANGED <<odom_vars, unit_vars, client_vars, step_vars>>
    \/ Stop /\ UNCHANGED <<odom_vars, unit_vars, client_vars, step_vars>>
    \/ ListenScan /\ UNCHANGED <<odom_vars, unit_vars, client_vars, step_vars>>

LidarRunSpec == LidarRunInit /\ [][LidarRunNext]_vars

\* the lines the log files hold together
RECURSIVE LogLines(_, _)
LogLines(dir, k) ==
    IF k > Len(dir) THEN 0 ELSE Len(dir[k].lines) + LogLines(dir, k + 1)

\* the sweeps of the runs that exercise the log: one geometry, at most one
\* reading a sweep
LogScans ==
    {m \in LaserScans : m.angle_increment = 360 /\ Len(m.ranges) <= 1}

\* the LIDAR provider constructed with or without log_file, lines 111-121,
\* its size limit the default or the one a caller has set
LogInit ==
    /\ running = FALSE
    /\ scans = None
    /\ angles = None
    /\ angles_final = None
    /\ raw_scan = None
    /\ valid_paths = None
    /\ lidar_string = None
    /\ turn_left = << >>
    /\ turn_right = << >>
    /\ advance = << >>
    /\ retreat = FALSE
    /\ raw = None
    /\ sensor_mounting_angle = DEFAULT_SENSOR_MOUNTING_ANGLE
    /\ angles_blanked = << >>
    /\ d435_running = FALSE
    /\ d435_obstacle = << >>
    /\ write_to_local_file \in BOOLEAN
    /\ filename_current = (IF write_to_local_file THEN 1 ELSE 0)
    /\ files = (IF write_to_local_file
                THEN << [exists |-> FALSE, lines |-> << >>] >>
                ELSE << >>)
    /\ max_file_size_bytes \in {10, 1024 * 1024}
    /\ call_arg = None
    /\ raised = None
    /\ sweep_pc = "idle"
    /\ pending = None
    /\ observed = None
    /\ last_call = "__init__"
    /\ robot_feed = OdomFeed
    /\ Constructed("turtlebot4", TRUE)

LogNext ==
    \/ /\ LogLines(files, 1) < MaxLogLines
       /\ \E scan \in LogScans :
          \E opened \in (IF write_to_local_file THEN BOOLEAN ELSE {TRUE}) :
              ListenScanWith(scan, opened)
       /\ UNCHANGED <<odom_vars, unit_vars, instances, provider, snapshot,
                      call_arg, step_vars>>
    \/ /\ LogLines(files, 1) < MaxLogLines
       /\ WriteStrToFile
       /\ UNCHANGED <<odom_vars, unit_vars, instances, provider, snapshot,
                      step_vars>>

LogSpec == LogInit /\ [][LogNext]_vars

\* the feed of the runs in which the position drifts: positions 8 mm apart
\* along z, so a step is 8, 16 or 24 mm
DriftFeed ==
    {[position |-> <<0, 0, z>>, yaw |-> 0, stamp |-> st] :
        z \in {0, 8, 16, 24}, st \in StampSamples}

\* one odometry provider with its token, started, fed drifting positions
DriftInit ==
    /\ LidarInit
    /\ sensor_mounting_angle = DEFAULT_SENSOR_MOUNTING_ANGLE
    /\ angles_blanked = << >>
    /\ robot_feed = DriftFeed
    /\ \E cls \in Variants : Constructed(cls, TRUE)

DriftSpec == DriftInit /\ [][OdomNext]_vars

(***************************************************************************)
(* start() as the threads of Callers run it, statement by statement.  No   *)
(* lock is taken in start(): a thread can be suspended between a check and *)
(* the creation that follows it.  A unit whose reference has been          *)
(* overwritten stays alive: processes_alive and threads_alive count the    *)
(* units alive, referenced by the provider's fields or not.                *)
(***************************************************************************)

\* the checks at the head of start(): "already running" and, but for
\* TurtleBot4, "channel/topic must be specified"
StartEnter(c) ==
    /\ start_pc[c] = "idle"
    /\ start_pc' =
          [start_pc EXCEPT ![c] =
              IF odom_reader_thread = "alive"
                    \/ (variant # "turtlebot4" /\ ~token)
              THEN "idle" ELSE "create_process"]
    /\ last_call' = "start:check"
    /\ UNCHANGED <<odom_vars, unit_vars, processes_alive, threads_alive>>

\* self._odom_reader_thread = mp.Process(...); self._odom_reader_thread.start()
StartProcess(c) ==
    /\ start_pc[c] = "create_process"
    /\ processes_alive < MaxUnits
    /\ odom_reader_thread' = "alive"
    /\ processes_alive' = processes_alive + 1
    /\ start_pc' = [start_pc EXCEPT ![c] = "check_thread"]
    /\ last_call' = "start:process"
    /\ UNCHANGED <<odom_vars, token, robot_feed, odom_processor_thread,
                   stop_event, processor_pc, caller_pc, call_effects,
                   put_count, consumed, reads_after_stop, last_delta,
                   zero_run, largest_delta, threads_alive>>

\* "if self._odom_processor_thread and ....is_alive(): return"
StartThreadCheck(c) ==
    /\ start_pc[c] = "check_thread"
    /\ start_pc' =
          [start_pc EXCEPT ![c] =
              IF odom_processor_thread = "alive" THEN "idle"
              ELSE "create_thread"]
    /\ last_call' =
          IF odom_processor_thread = "alive" THEN "start" ELSE "start:check"
    /\ UNCHANGED <<odom_vars, unit_vars, processes_alive, threads_alive>>

\* self._odom_processor_thread = threading.Thread(...); ....start()
StartThread(c) ==
    /\ start_pc[c] = "create_thread"
    /\ threads_alive < MaxUnits
    /\ odom_processor_thread' = "alive"
    /\ processor_pc' = "check"
    /\ threads_alive' = threads_alive + 1
    /\ start_pc' = [start_pc EXCEPT ![c] = "idle"]
    /\ last_call' = "start"
    /\ UNCHANGED <<odom_vars, token, robot_feed, odom_reader_thread,
                   stop_event, caller_pc, call_effects, put_count, consumed,
                   reads_after_stop, last_delta, zero_run, largest_delta,
                   processes_alive>>

\* a processing thread the provider no longer references finds the stop flag
\* set at the head of its loop
UnreferencedLoopCheck ==
    /\ stop_event
    /\ threads_alive > (IF odom_processor_thread = "alive" THEN 1 ELSE 0)
    /\ threads_alive' = threads_alive - 1
    /\ last_call' = "loop"
    /\ UNCHANGED <<odom_vars, unit_vars, start_pc, processes_alive>>

RaceInit ==
    /\ LidarInit
    /\ sensor_mounting_angle = DEFAULT_SENSOR_MOUNTING_ANGLE
    /\ angles_blanked = << >>
    /\ robot_feed = LifecycleFeed
    /\ \E cls \in Variants : \E tok \in BOOLEAN : Constructed(cls, tok)

RaceNext ==
    \/ /\ \E c \in Callers : StartEnter(c)
       /\ UNCHANGED <<lidar_fields, client_vars, sweep_pc, pending, observed>>
    \/ /\ \E c \in Callers : StartProcess(c)
       /\ UNCHANGED <<lidar_fields, client_vars, sweep_pc, pending, observed>>
    \/ /\ \E c \in Callers : StartThreadCheck(c)
       /\ UNCHANGED <<lidar_fields, client_vars, sweep_pc, pending, observed>>
    \/ /\ \E c \in Callers : StartThread(c)
       /\ UNCHANGED <<lidar_fields, client_vars, sweep_pc, pending, observed>>
    \/ /\ ReaderExit
       /\ processes_alive' = processes_alive - 1
       /\ UNCHANGED <<lidar_fields, client_vars, sweep_pc, pending, observed,
                      start_pc, threads_alive>>
    \/ /\ StopCall
       /\ processes_alive' =
             IF odom_reader_thread = "alive" THEN processes_alive - 1
             ELSE processes_alive
       /\ UNCHANGED <<lidar_fields, client_vars, sweep_pc, pending, observed,
                      start_pc, threads_alive>>
    \/ StopJoin /\ UNCHANGED <<lidar_fields, client_vars, step_vars>>
    \/ /\ LoopCheck
       /\ threads_alive' =
             IF stop_event THEN threads_alive - 1 ELSE threads_alive
       /\ UNCHANGED <<lidar_fields, client_vars, sweep_pc, pending, observed,
                      start_pc, processes_alive>>
    \/ /\ UnreferencedLoopCheck
       /\ UNCHANGED <<lidar_fields, client_vars, sweep_pc, pending, observed>>
    \/ ProcessOdomTimeout /\ UNCHANGED <<lidar_fields, client_vars, step_vars>>

RaceSpec == RaceInit /\ [][RaceNext]_vars

(***************************************************************************)
(* _path_processor's final writes, statement by statement, with a reader   *)
(* of the properties in another thread.  No lock is taken on either side.  *)
(***************************************************************************)

\* listen_scan up to line 396 of _path_processor: the sweep is converted, the
\* possible paths are computed, and the buckets are set to empty
SweepClear ==
    \E scan \in {m \in LaserScans :
                    angles = None \/ angles = Some(ScanAngles(m))} :
    \E opened \in (IF write_to_local_file THEN BOOLEAN ELSE {TRUE}) :
    LET recompute == angles = None \/ angles = Some(<< >>)
        new_angles == IF recompute THEN Some(ScanAngles(scan)) ELSE angles
        new_final == IF recompute THEN Some(flip(ScanAngles(scan)))
                     ELSE angles_final
        data == IF new_final # None THEN zip(new_final[1], scan.ranges)
                ELSE << >>
        raw_rows == RawFrame(data, sensor_mounting_angle)
        complexes == Complexes(data, sensor_mounting_angle, angles_blanked, 1)
                     \o D435Rows(d435_running, d435_obstacle)
        written == write_str_to_file(JsonFrame(raw_rows), filename_current,
                                     files, max_file_size_bytes, opened)
    IN  \E array \in {SortedArray(complexes)} :
        \E ppl \in {PossiblePaths(array)} :
        /\ sweep_pc = "idle"
        /\ scans' = Some(scan)
        /\ angles' = new_angles
        /\ angles_final' = new_final
        /\ raw' = Some(raw_rows)
        /\ filename_current' =
              IF write_to_local_file THEN written.filename_current
              ELSE filename_current
        /\ files' = IF write_to_local_file THEN written.files ELSE files
        /\ turn_left' = << >>
        /\ turn_right' = << >>
        /\ advance' = << >>
        /\ retreat' = FALSE
        /\ pending' = Some([array |-> array, ppl |-> ppl])
        /\ sweep_pc' = "cleared"
        /\ raised' = None
        /\ last_call' = "listen_scan:clear"
        /\ UNCHANGED <<running, raw_scan, valid_paths, lidar_string,
                       sensor_mounting_angle, angles_blanked, d435_running,
                       d435_obstacle, write_to_local_file,
                       max_file_size_bytes, call_arg, observed>>

\* the loop of lines 401-409: the buckets are filled from the new paths
SweepFill ==
    /\ sweep_pc = "cleared"
    /\ turn_left' = TurnLeftOf(pending[1].ppl)
    /\ turn_right' = TurnRightOf(pending[1].ppl)
    /\ advance' = AdvanceOf(pending[1].ppl)
    /\ retreat' = RetreatOf(pending[1].ppl)
    /\ sweep_pc' = "filled"
    /\ last_call' = "listen_scan:fill"
    /\ UNCHANGED <<running, scans, angles, angles_final, raw_scan,
                   valid_paths, lidar_string, raw, sensor_mounting_angle,
                   angles_blanked, d435_running, d435_obstacle,
                   write_to_local_file, filename_current, files,
                   max_file_size_bytes, call_arg, raised, pending, observed>>

\* lines 411-415: the summary, then _raw_scan, _lidar_string and _valid_paths
SweepPublish ==
    /\ sweep_pc = "filled"
    /\ raw_scan' = Some(pending[1].array)
    /\ lidar_string' =
          Some(generate_movement_string(pending[1].ppl, advance))
    /\ valid_paths' = Some(pending[1].ppl)
    /\ pending' = None
    /\ sweep_pc' = "idle"
    /\ last_call' = "listen_scan"
    /\ UNCHANGED <<running, scans, angles, angles_final, turn_left,
                   turn_right, advance, retreat, raw, sensor_mounting_angle,
                   angles_blanked, d435_running, d435_obstacle,
                   write_to_local_file, filename_current, files,
                   max_file_size_bytes, call_arg, raised, observed>>

\* another thread reads the properties valid_paths and movement_options
ReadOptions ==
    /\ observed' =
          Some([valid_paths |-> valid_paths,
                movement_options |->
                    [turn_left |-> turn_left, advance |-> advance,
                     turn_right |-> turn_right, retreat |-> retreat]])
    /\ last_call' = "read"
    /\ UNCHANGED <<lidar_fields, call_arg, raised, sweep_pc, pending>>

SweepNext ==
    \/ /\ SweepClear
       /\ UNCHANGED <<odom_vars, unit_vars, instances, provider, snapshot,
                      start_pc, processes_alive, threads_alive>>
    \/ /\ SweepFill
       /\ UNCHANGED <<odom_vars, unit_vars, instances, provider, snapshot,
                      start_pc, processes_alive, threads_alive>>
    \/ /\ SweepPublish
       /\ UNCHANGED <<odom_vars, unit_vars, instances, provider, snapshot,
                      start_pc, processes_alive, threads_alive>>
    \/ /\ ReadOptions
       /\ UNCHANGED <<odom_vars, unit_vars, instances, provider, snapshot,
                      start_pc, processes_alive, threads_alive>>

SweepSpec == LidarSpecInit /\ [][SweepNext]_vars

(***************************************************************************)
(* Notions used by the properties.  They restate the specification's       *)
(* terms on the inputs of the sweep that completed last.                   *)
(***************************************************************************)
AfterSweep == last_call = "listen_scan"

\* the (sensor angle, distance) readings of the last sweep
SweepReadings == zip(angles_final[1], scans[1].ranges)

\* the angle of a reading in [0, 360) and in [-180, +180)
OrientedAngle(a) == (a + sensor_mounting_angle) % 360
ConvertedAngle(a) == OrientedAngle(a) - 180

InWindow(d) ==
    d >= DEFAULT_RELEVANT_DISTANCE_MIN /\ d <= DEFAULT_RELEVANT_DISTANCE_MAX

IsBlanked(c) ==
    \E i \in 1..Len(angles_blanked) :
        c >= angles_blanked[i][1] /\ c <= angles_blanked[i][2]

\* robot-frame position <<x, y>> of a reading; y is the forward axis
PointOf(reading) ==
    LET row == ToComplex(ConvertedAngle(reading[1]), reading[2])
    IN  <<row[1], row[2]>>

MergeConditionHolds == d435_running /\ Len(d435_obstacle) > 50

MergedPoints ==
    IF MergeConditionHolds
    THEN {<<d435_obstacle[i].x, d435_obstacle[i].y>> :
             i \in 1..Len(d435_obstacle)}
    ELSE {}

SurvivingReadings ==
    {i \in 1..Len(SweepReadings) :
        InWindow(SweepReadings[i][2])
        /\ ~IsBlanked(ConvertedAngle(SweepReadings[i][1]))}

SurvivingPoints ==
    {PointOf(SweepReadings[i]) : i \in SurvivingReadings} \cup MergedPoints

\* point pt is closer than half_width_robot to the segment of path p
WithinHalfWidth(pt, p) ==
    LET d == distance_point_to_line_segment(
                 pt[1], pt[2], 0, 0, paths[p + 1][1][2], paths[p + 1][2][2])
    IN  d[1] < DEFAULT_HALF_WIDTH_ROBOT * DEFAULT_HALF_WIDTH_ROBOT * d[2]

IsBehind(pt) == pt[2] < 0

ValidSet == {valid_paths[1][i] : i \in 1..Len(valid_paths[1])}

Restricted(seq, S) == SelectSeq(seq, LAMBDA p : p \in S)

Contains(str, sub) ==
    \E i \in 1..(Len(str) - Len(sub) + 1) :
        SubSeq(str, i, i + Len(sub) - 1) = sub

\* valid_paths as the sweep would leave it for the given readings
ValidPathsFor(readings) ==
    PossiblePaths(SortedArray(
        Complexes(readings, sensor_mounting_angle, angles_blanked, 1)
        \o D435Rows(d435_running, d435_obstacle)))

(***************************************************************************)
(* C1.  After a sweep no path left in valid_paths is obstructed: for a     *)
(* valid index p in 0..8 no surviving obstacle point (in the relevance     *)
(* window and not blanked, or merged from the D435) is closer than         *)
(* half_width_robot to the segment of p, and index 9 is valid only if no   *)
(* surviving point behind the robot is that close to the 180-degree        *)
(* segment.                                                                *)
(***************************************************************************)
C1_ValidPathsUnobstructed ==
    AfterSweep =>
        \A p \in ValidSet : \A pt \in SurvivingPoints :
            /\ p \in 0..8 => ~WithinHalfWidth(pt, p)
            /\ p = 9 => ~(IsBehind(pt) /\ WithinHalfWidth(pt, 9))

\* a sweep with a surviving obstacle point that leaves a path valid
C1_Witness ==
    /\ AfterSweep
    /\ SurvivingPoints # {}
    /\ valid_paths = Some(<<4>>)

(***************************************************************************)
(* C2.  Every sweep evaluates all ten candidate paths: after a sweep,      *)
(* every path in 0..9 without a surviving obstacle point within            *)
(* half_width_robot of its segment is in valid_paths (with no surviving    *)
(* point at all, valid_paths = [0, ..., 9]).                               *)
(***************************************************************************)
C2_AllUnobstructedPathsValid ==
    AfterSweep =>
        /\ \A p \in 0..9 :
              (\A pt \in SurvivingPoints : ~WithinHalfWidth(pt, p))
                  => p \in ValidSet
        /\ SurvivingPoints = {}
              => valid_paths = Some(<<0, 1, 2, 3, 4, 5, 6, 7, 8, 9>>)

\* the claim on a sweep without any obstacle point
C2_Counterexample ==
    (AfterSweep /\ SurvivingPoints = {})
        => valid_paths = Some(<<0, 1, 2, 3, 4, 5, 6, 7, 8, 9>>)

(***************************************************************************)
(* C3.  _zenoh_processor(None), from any prior state, leaves               *)
(* raw_scan = None, valid_paths = [] and a lidar_string with the           *)
(* "cannot safely move ... DO NOT MOVE" phrase.                            *)
(***************************************************************************)
C3_AbsentScanIsDoNotMove ==
    last_call = "_zenoh_processor(None)" =>
        /\ raw_scan = None
        /\ valid_paths = Some(<< >>)
        /\ lidar_string # None
        /\ Contains(lidar_string[1], "cannot safely move")
        /\ Contains(lidar_string[1], "DO NOT MOVE")

\* an absent scan processed after a sweep that had found a valid path
C3_Witness ==
    /\ last_call = "_zenoh_processor(None)"
    /\ scans # None
    /\ advance = <<4>>

(***************************************************************************)
(* C4.  End-to-end scenario: default window and half width, mounting angle *)
(* 180, nothing blanked, nothing merged, one reading (sensor angle 0,      *)
(* 0.5 m): the forward path is excluded, advance is empty, turn_left and   *)
(* turn_right are non-empty and retreat is True.                           *)
(***************************************************************************)
C4_EndToEndScenario ==
    (/\ AfterSweep
     /\ sensor_mounting_angle = 180
     /\ angles_blanked = << >>
     /\ ~MergeConditionHolds
     /\ SweepReadings = << <<0, 50>> >>)
    =>
    (/\ 4 \notin ValidSet
     /\ advance = << >>
     /\ turn_left # << >>
     /\ turn_right # << >>
     /\ retreat = TRUE)

\* the scenario's claim about the turns and the retreat
C4_Counterexample ==
    (/\ AfterSweep
     /\ sensor_mounting_angle = 180
     /\ angles_blanked = << >>
     /\ ~MergeConditionHolds
     /\ SweepReadings = << <<0, 50>> >>)
    =>
    (turn_left # << >> /\ turn_right # << >> /\ retreat = TRUE)

(***************************************************************************)
(* C5.  An obstacle point that is not behind the robot never removes the   *)
(* 180-degree retreat path: after a sweep none of whose surviving points   *)
(* is behind the robot, index 9 is in valid_paths and retreat is True.     *)
(***************************************************************************)
C5_RetreatKeptUnlessBehind ==
    (AfterSweep /\ \A pt \in SurvivingPoints : ~IsBehind(pt))
        => (9 \in ValidSet /\ retreat = TRUE)

\* the claim on a sweep whose obstacle points all lie ahead, within
\* half_width_robot of the forward segment
C5_Counterexample ==
    (/\ AfterSweep
     /\ SurvivingPoints # {}
     /\ \A pt \in SurvivingPoints : ~IsBehind(pt) /\ WithinHalfWidth(pt, 4))
    =>
    (4 \notin ValidSet /\ 9 \in ValidSet /\ retreat = TRUE)

(***************************************************************************)
(* C6.  Readings whose converted angle lies in a blanked range take no     *)
(* part in the obstruction test: valid_paths after a sweep is what it      *)
(* would be with those readings deleted from the sweep.                    *)
(***************************************************************************)
C6_BlankedReadingsIgnored ==
    AfterSweep =>
        valid_paths =
            Some(ValidPathsFor(
                SelectSeq(SweepReadings,
                          LAMBDA r : ~IsBlanked(ConvertedAngle(r[1])))))

\* the claim on a sweep with an in-window reading inside a blanked range,
\* which without that reading keeps the forward path
C6_Counterexample ==
    (/\ AfterSweep
     /\ \E i \in 1..Len(SweepReadings) :
           /\ IsBlanked(ConvertedAngle(SweepReadings[i][1]))
           /\ InWindow(SweepReadings[i][2])
     /\ ValidPathsFor(
            SelectSeq(SweepReadings,
                      LAMBDA r : ~IsBlanked(ConvertedAngle(r[1])))) = <<4>>)
    =>
    valid_paths = Some(<<4>>)

(***************************************************************************)
(* C7.  Readings outside the relevance window remove no path (valid_paths  *)
(* is what it would be with them deleted), and each of them still appears  *)
(* as (oriented angle, distance) in the raw frame of the sweep.            *)
(***************************************************************************)
C7_OutOfWindowReadingsRawOnly ==
    AfterSweep =>
        /\ valid_paths =
              Some(ValidPathsFor(
                  SelectSeq(SweepReadings, LAMBDA r : InWindow(r[2]))))
        /\ raw # None
        /\ Len(raw[1]) = Len(SweepReadings)
        /\ \A i \in 1..Len(SweepReadings) :
              ~InWindow(SweepReadings[i][2])
                  => raw[1][i] = <<OrientedAngle(SweepReadings[i][1]),
                                   SweepReadings[i][2]>>

\* a sweep with a reading below the window that keeps the forward path
C7_Witness ==
    /\ AfterSweep
    /\ \E i \in 1..Len(SweepReadings) :
          SweepReadings[i][2] < DEFAULT_RELEVANT_DISTANCE_MIN
    /\ \E i \in 1..Len(SweepReadings) :
          SweepReadings[i][2] > DEFAULT_RELEVANT_DISTANCE_MAX
    /\ valid_paths = Some(<<4>>)

(***************************************************************************)
(* C8.  After every completed processing call (sweep or absent scan)       *)
(* movement_options is the partition of valid_paths: turn_left, advance    *)
(* and turn_right are valid_paths restricted to {0,1,2}, {3,4,5} and       *)
(* {6,7,8}, and retreat is True iff 9 is in valid_paths.                   *)
(***************************************************************************)
C8_BucketsPartitionValidPaths ==
    last_call \in {"listen_scan", "_zenoh_processor(None)"} =>
        /\ turn_left = Restricted(valid_paths[1], {0, 1, 2})
        /\ advance = Restricted(valid_paths[1], {3, 4, 5})
        /\ turn_right = Restricted(valid_paths[1], {6, 7, 8})
        /\ retreat = (9 \in ValidSet)

\* the claim's advance bucket after an absent scan
C8_Counterexample ==
    last_call = "_zenoh_processor(None)" =>
        advance = Restricted(valid_paths[1], {3, 4, 5})

(***************************************************************************)
(* C9.  After every sweep lidar_string is the "surrounded by objects ...   *)
(* DO NOT MOVE" sentence iff valid_paths is empty; otherwise it offers     *)
(* 'turn left', 'turn right' and 'stand still', and it contains            *)
(* 'move forwards' iff the advance bucket is non-empty.                    *)
(***************************************************************************)
C9_SummaryMatchesValidPaths ==
    AfterSweep =>
        /\ lidar_string # None
        /\ (Contains(lidar_string[1], "surrounded by objects")
            /\ Contains(lidar_string[1], "DO NOT MOVE"))
                <=> valid_paths = Some(<< >>)
        /\ valid_paths # Some(<< >>) =>
              /\ Contains(lidar_string[1], "'turn left'")
              /\ Contains(lidar_string[1], "'turn right'")
              /\ Contains(lidar_string[1], "'stand still'")
              /\ Contains(lidar_string[1], "'move forwards'")
                    <=> advance # << >>

\* a sweep that leaves the forward path valid, and so offers 'move forwards'
C9_Witness ==
    /\ AfterSweep
    /\ advance = <<4>>
    /\ Contains(lidar_string[1], "'move forwards'")

(***************************************************************************)
(* C10.  After every completed ingest of a pose sample (base variants and  *)
(* G1), odom_yaw_0_360 = (360 - odom_yaw_m180_p180) mod 360 and            *)
(* odom_yaw_0_360 lies in [0, 360).                                        *)
(***************************************************************************)
C10_YawConventionsAgree ==
    last_call = "process_odom" =>
        /\ odom_yaw_0_360 = (3600000 - odom_yaw_m180_p180) % 3600000
        /\ odom_yaw_0_360 >= 0
        /\ odom_yaw_0_360 < 3600000

\* an ingest of a left turn by a right angle: 90 degrees reads as 270
C10_Witness ==
    /\ last_call = "process_odom"
    /\ odom_yaw_m180_p180 = 900000
    /\ odom_yaw_0_360 = 2700000

(***************************************************************************)
(* Notions used by the odometry properties.                                *)
(***************************************************************************)
\* squared distance, in mm^2, from the position ingested before to <<x,y,z>>
SquaredStep(x, y, z) ==
    (x - previous_x) * (x - previous_x) + (y - previous_y) * (y - previous_y)
        + (z - previous_z) * (z - previous_z)

\* the number of ingests after which the largest history the samples can
\* build, multiplied by 0.3 each time, is at or below the threshold
DecayIngests ==
    LET largest ==
            CHOOSE d \in {isqrt((p[1] - q[1]) * (p[1] - q[1])
                                + (p[2] - q[2]) * (p[2] - q[2])
                                + (p[3] - q[3]) * (p[3] - q[3])) * 10 :
                             p \in PositionSamples, q \in PositionSamples} :
                \A p \in PositionSamples, q \in PositionSamples :
                    d >= isqrt((p[1] - q[1]) * (p[1] - q[1])
                               + (p[2] - q[2]) * (p[2] - q[2])
                               + (p[3] - q[3]) * (p[3] - q[3])) * 10
    IN  CHOOSE n \in 0..10 :
            /\ largest * 3^n <= MOVING_THRESHOLD * 10^n
            /\ \A m \in 0..(n - 1) :
                  largest * 3^m > MOVING_THRESHOLD * 10^m

(***************************************************************************)
(* C11.  After every ingest move_history = 0.7 * delta + 0.3 * (previous   *)
(* move_history), delta being the 3D distance from the previously ingested *)
(* position to the new one, and moving is true iff delta > 0.01 m or the   *)
(* new move_history > 0.01.  Lengths are whole millimetres (delta, rounded *)
(* down) and tenths of a millimetre (move_history, rounded down).          *)
(***************************************************************************)
C11_DecayKernelAndMoving ==
    [][last_call' = "process_odom" =>
         LET step == SquaredStep(previous_x', previous_y', previous_z')
             delta_mm == CHOOSE r \in 0..1000 :
                             r * r <= step /\ (r + 1) * (r + 1) > step
             exact == 70 * delta_mm + 3 * move_history
         IN  /\ 10 * move_history' <= exact
             /\ exact < 10 * move_history' + 10
             /\ moving' = (step > 10 * 10 \/ move_history' > 100)
      ]_vars

\* an ingest of a step of 5 mm on top of a history above the threshold: the
\* step alone would not count as movement, the history does
C11_Witness ==
    /\ last_call = "process_odom"
    /\ last_delta = 50
    /\ move_history > 100
    /\ moving

(***************************************************************************)
(* C12.  An ingest with a position delta above 0.01 m (so also the second  *)
(* of two in a row) leaves moving true; once DecayIngests ingests in a row *)
(* had zero delta, move_history is at or below 0.01 and moving is false,   *)
(* and both stay so while the deltas remain zero.                          *)
(***************************************************************************)
C12_MovingDecays ==
    last_call = "process_odom" =>
        /\ last_delta > MOVING_THRESHOLD => moving
        /\ zero_run >= DecayIngests =>
              (~moving /\ move_history <= MOVING_THRESHOLD)

\* two steps of 0.3 m in a row, then DecayIngests samples at rest
C12_Witness ==
    /\ last_call = "process_odom"
    /\ Len(consumed) = 2 + DecayIngests
    /\ zero_run = DecayIngests
    /\ move_history = 73
    /\ ~moving

BothAlive ==
    odom_reader_thread = "alive" /\ odom_processor_thread = "alive"

\* the stamps of the messages waiting in the queue, oldest first
QueuedStamps == [i \in 1..Len(data_queue) |-> data_queue[i].stamp]

(***************************************************************************)
(* C13.  start() on a provider whose acquisition process and processing    *)
(* thread are both alive creates and starts no process and no thread, and  *)
(* leaves both units as they are, at every such call.                      *)
(***************************************************************************)
C13_StartIdempotentWhenRunning ==
    [][(last_call' = "start" /\ BothAlive) =>
          /\ call_effects'.processes = 0
          /\ call_effects'.threads = 0
          /\ UNCHANGED <<odom_reader_thread, odom_processor_thread>>
      ]_vars

\* a start() that found both units alive, after messages were ingested
C13_Witness ==
    /\ last_call = "start"
    /\ BothAlive
    /\ consumed # << >>
    /\ call_effects.processes = 0
    /\ call_effects.threads = 0

(***************************************************************************)
(* C14.  start() with the acquisition process not alive and the processing *)
(* thread alive starts exactly one acquisition process and no processing   *)
(* thread; no start() creates a processing thread while one is alive.      *)
(***************************************************************************)
C14_StartUnitsIndependent ==
    [][(last_call' = "start" /\ odom_processor_thread = "alive") =>
          /\ call_effects'.threads = 0
          /\ odom_reader_thread # "alive" =>
                (call_effects'.processes = 1 /\ odom_reader_thread' = "alive")
      ]_vars

\* a start() after the acquisition process had ended: one process, no thread
C14_Witness ==
    /\ last_call = "start"
    /\ call_effects.processes = 1
    /\ call_effects.threads = 0
    /\ BothAlive

C16_StopSignalsAndJoins ==
    last_call = "stop" =>
        /\ stop_event
        /\ odom_reader_thread # "alive"
        /\ call_effects.terminates =
              (IF odom_reader_thread = "none" THEN 0 ELSE 1)
        /\ call_effects.reader_joins =
              (IF odom_reader_thread = "none" THEN 0 ELSE 1)
        /\ call_effects.processor_joins =
              (IF odom_processor_thread = "none" THEN 0 ELSE 1)

\* a stop() of a provider that had ingested a message
C16_Witness ==
    /\ last_call = "stop"
    /\ consumed # << >>
    /\ call_effects.terminates = 1
    /\ call_effects.processor_joins = 1

(***************************************************************************)
(* C17.  With the stop flag set the processing thread makes at most one    *)
(* further queue read; at the head of its loop with the flag set it reads  *)
(* nothing; and the join of the processing thread in stop() completes.     *)
(***************************************************************************)
C17_StopTerminates ==
    /\ [](reads_after_stop <= 1)
    /\ [][(stop_event /\ processor_pc = "check") =>
             (consumed' = consumed /\ reads_after_stop' = reads_after_stop)
         ]_vars
    /\ (caller_pc = "join_processor") ~> (caller_pc = "idle")

\* stop() has returned after the thread made its one further read
C17_Witness ==
    /\ last_call = "stop"
    /\ reads_after_stop = 1
    /\ odom_processor_thread = "dead"

(***************************************************************************)
(* C18.  The messages taken off the queue, followed by the messages still  *)
(* in it, are the messages put, in the order they were put: each is        *)
(* consumed once, in arrival order; an ingest stores the stamp of the      *)
(* message it consumed; and while the processing thread is alive and no    *)
(* stop() was called, every message put is consumed in the end.            *)
(***************************************************************************)
C18_FifoExactlyOnce ==
    /\ [](LET order == consumed \o QueuedStamps
          IN  /\ Len(order) = put_count
              /\ \A i \in 1..put_count :
                    order[i] - (i - 1) \in StampSamples
              /\ last_call = "process_odom" =>
                    odom_rockchip_ts = consumed[Len(consumed)])
    /\ \A i \in 1..MaxMessages :
          (put_count >= i) ~>
              (\/ Len(consumed) >= i
               \/ stop_event
               \/ odom_processor_thread # "alive")

\* two messages waited in the queue together and both were ingested
C18_Witness ==
    /\ last_call = "process_odom"
    /\ Len(consumed) >= 3
    /\ Len(data_queue) = MaxQueue - 1
    /\ odom_processor_thread = "alive"
    /\ ~stop_event

(***************************************************************************)
(* C19.  A malformed message is dropped and the processing unit goes on:   *)
(* a processing thread that was started and not told to stop is alive, so  *)
(* the messages enqueued after the malformed one are ingested.             *)
(***************************************************************************)
C19_MalformedDropped ==
    (odom_processor_thread # "none" /\ ~stop_event) =>
        odom_processor_thread = "alive"

\* the claim where a well-formed message waits in the queue of a live
\* reader after a message was consumed, and no stop() was called
C19_Counterexample ==
    (/\ ~stop_event
     /\ odom_processor_thread # "none"
     /\ odom_reader_thread = "alive"
     /\ consumed # << >>
     /\ data_queue # << >>
     /\ well_formed(data_queue[1]))
    =>
    odom_processor_thread = "alive"

(***************************************************************************)
(* C20.  A queue-read timeout changes no Motion/Attitude field and the     *)
(* poll loop keeps running; while nothing was ever delivered every field   *)
(* keeps its initial value.                                                *)
(***************************************************************************)
C20_TimeoutChangesNothing ==
    /\ [][last_call' = "timeout" =>
             /\ UNCHANGED motion_fields
             /\ odom_processor_thread' = "alive"
             /\ processor_pc' = "check"
         ]_vars
    /\ [](put_count = 0 => OdomFieldsInit)

\* a timeout after an ingest: the fields keep their last-known values
C20_Witness ==
    /\ last_call = "timeout"
    /\ consumed # << >>
    /\ odom_rockchip_ts > 0
    /\ moving

(***************************************************************************)
(* C21: every construction of the variant's class after the first returns  *)
(* the instance the first one made; the instance keeps the token of the    *)
(* first construction, whatever token the later one is given, and no       *)
(* acquisition or processing unit is started by it.                        *)
(***************************************************************************)
C21_SingletonFirstWins ==
    [][last_call' \in {"construct(token)", "construct()"} =>
          /\ provider' = 1
          /\ instances' = instances
          /\ token' = token
          /\ odom_reader_thread' = odom_reader_thread
          /\ odom_processor_thread' = odom_processor_thread
          /\ call_effects' = call_effects
          /\ data_queue' = data_queue]_vars

\* the class was first constructed with a token and its units run; a later
\* construction without one has returned
C21_Witness ==
    /\ last_call = "construct()"
    /\ token
    /\ BothAlive
    /\ provider = 1

(***************************************************************************)
(* C22: for Go2 and Tron, once a sample has been ingested, body_height_cm  *)
(* is round(100 * z) of the latest sample and body_attitude follows from   *)
(* that height alone: STANDING above the variant's threshold (24, 60),     *)
(* SITTING above 3 up to the threshold, unset at 3 or below, whatever the  *)
(* earlier samples were.                                                   *)
(***************************************************************************)
C22_AttitudeFromLatestHeight ==
    (variant \in {"go2", "tron"} /\ consumed # << >>) =>
        /\ body_height_cm = round_cm(previous_z)
        /\ body_attitude =
              IF body_height_cm > STANDING_ABOVE_CM[variant]
              THEN Some(STANDING)
              ELSE IF body_height_cm > SITTING_ABOVE_CM THEN Some(SITTING)
              ELSE None

\* the claim on Go2 samples that end at a height of 3 cm or less
C22_Counterexample ==
    (variant = "go2" /\ consumed # << >>
        /\ round_cm(previous_z) <= SITTING_ABOVE_CM) =>
        body_attitude = None

(***************************************************************************)
(* C23: the G1 provider reports body_attitude = STANDING through position  *)
(* in every state, whatever the heights of the samples it has received.    *)
(***************************************************************************)
C23_G1AlwaysStanding ==
    variant = "g1" => position.body_attitude = Some(STANDING)

\* the claim on a G1 provider that has not taken a sample off its queue
C23_Counterexample ==
    (variant = "g1" /\ consumed = << >>) =>
        position.body_attitude = Some(STANDING)

(***************************************************************************)
(* C24: position returns a mapping with exactly the nine keys odom_x,      *)
(* odom_y, moving, odom_yaw_0_360, odom_yaw_m180_p180, body_height_cm,     *)
(* body_attitude, odom_rockchip_ts and odom_subscriber_ts, holding the     *)
(* values the fields have at the read; the read changes no field; no step  *)
(* of an ingest changes a mapping already returned; and a write into a     *)
(* returned mapping changes no field of the provider.                      *)
(***************************************************************************)
C24_PositionIsFreshSnapshot ==
    [][/\ last_call' = "position" =>
             /\ DOMAIN snapshot'[1] =
                   {"odom_x", "odom_y", "moving", "odom_yaw_0_360",
                    "odom_yaw_m180_p180", "body_height_cm", "body_attitude",
                    "odom_rockchip_ts", "odom_subscriber_ts"}
             /\ snapshot'[1].odom_x = odom_x
             /\ snapshot'[1].odom_y = odom_y
             /\ snapshot'[1].moving = moving
             /\ snapshot'[1].odom_yaw_0_360 = odom_yaw_0_360
             /\ snapshot'[1].odom_yaw_m180_p180 = odom_yaw_m180_p180
             /\ snapshot'[1].body_height_cm = body_height_cm
             /\ snapshot'[1].body_attitude = body_attitude
             /\ snapshot'[1].odom_rockchip_ts = odom_rockchip_ts
             /\ snapshot'[1].odom_subscriber_ts = odom_subscriber_ts
             /\ motion_fields' = motion_fields
       /\ motion_fields' # motion_fields => snapshot' = snapshot
       /\ last_call' = "mutate" => motion_fields' = motion_fields]_vars

\* a mapping was read in the middle of a turn, the ingest went on and the
\* caller has written into the mapping since
C24_Witness ==
    /\ last_call = "mutate"
    /\ snapshot # None
    /\ "note" \in DOMAIN snapshot[1]
    /\ snapshot[1].odom_yaw_m180_p180 # odom_yaw_m180_p180
    /\ odom_x # 0

(***************************************************************************)
(* C25: in every mapping a reader gets from position, also one read while  *)
(* the processing thread is in the middle of an ingest, odom_yaw_0_360 is  *)
(* 360 - odom_yaw_m180_p180 wrapped into [0, 360).                         *)
(***************************************************************************)
C25_YawPairConsistentForReaders ==
    snapshot # None =>
        snapshot[1].odom_yaw_0_360 =
            yaw_0_360_of(snapshot[1].odom_yaw_m180_p180)

\* the claim on a read between the two assignments of a quarter turn
C25_Counterexample ==
    (last_call = "position" /\ processor_pc = "flip"
        /\ odom_yaw_m180_p180 = 900000) =>
        position.odom_yaw_0_360 = 2700000

(***************************************************************************)
(* C26: write_str_to_file called with an argument that is not a string     *)
(* raises ValueError and changes nothing: neither the current file name    *)
(* nor a file nor any other field of the provider.                         *)
(***************************************************************************)
C26_NonStringRejected ==
    [][(last_call' = "write_str_to_file" /\ call_arg'[1].type # "str") =>
          /\ raised' = Some("ValueError")
          /\ filename_current' = filename_current
          /\ files' = files
          /\ lidar_fields' = lidar_fields]_vars

\* a dictionary was passed while the log held lines already
C26_Witness ==
    /\ last_call = "write_str_to_file"
    /\ call_arg # None
    /\ call_arg[1].type = "dict"
    /\ raised = Some("ValueError")
    /\ LogLines(files, 1) > 0

C28_LogFailureContained ==
    (AfterSweep /\ write_to_local_file) =>
        /\ raised = None
        /\ raw = Some(RawFrame(SweepReadings, sensor_mounting_angle))
        /\ raw_scan # None
        /\ valid_paths = Some(ValidPathsFor(SweepReadings))
        /\ turn_left = TurnLeftOf(valid_paths[1])
        /\ turn_right = TurnRightOf(valid_paths[1])
        /\ advance = AdvanceOf(valid_paths[1])
        /\ retreat = RetreatOf(valid_paths[1])
        /\ lidar_string =
              Some(generate_movement_string(valid_paths[1], advance))

\* logging is enabled and a sweep with an obstacle ahead has completed, yet
\* the log holds only the line of the sweep before it, which had found the
\* way ahead free: the frame of the latest sweep could not be written
C28_Witness ==
    /\ AfterSweep
    /\ write_to_local_file
    /\ LogLines(files, 1) = 1
    /\ files[1].lines = <<JsonFrame(<< >>) \o "\n">>
    /\ scans[1].ranges = <<50>>
    /\ valid_paths = Some(<< >>)

(***************************************************************************)
(* C29: valid_paths does not depend on the order in which the obstruction  *)
(* loop visits the points: after a sweep, the loop run over the same       *)
(* points in another order leaves the same paths.  The orders are all      *)
(* permutations of an array of up to MaxPermuted points, and the reversal  *)
(* and the rotations of a longer one.                                      *)
(***************************************************************************)
C29_VisitOrderIrrelevant ==
    (AfterSweep /\ Len(raw_scan[1]) > 0) =>
        LET rows == raw_scan[1]
            n == Len(rows)
            orders ==
                IF n <= MaxPermuted
                THEN {f \in [1..n -> 1..n] :
                         \A i, j \in 1..n : f[i] = f[j] => i = j}
                ELSE {[i \in 1..n |-> n + 1 - i]}
                     \cup {[i \in 1..n |-> ((i + r - 1) % n) + 1] :
                              r \in 1..(n - 1)}
        IN  \A f \in orders :
                PossiblePaths([i \in 1..n |-> rows[f[i]]]) = valid_paths[1]

\* a sweep with a point behind the robot and a point ahead of it, which
\* alone removes the path
C29_Witness ==
    /\ AfterSweep
    /\ Len(raw_scan[1]) = 2
    /\ raw_scan[1][1][2] < 0
    /\ raw_scan[1][2][2] > 0
    /\ valid_paths = Some(<< >>)

(***************************************************************************)
(* C30: the D435 obstacle points take part in a sweep exactly when the     *)
(* D435 provider is running and holds more than 50 points.  Then each of   *)
(* them is a row of the array the obstruction loop runs over; with 50      *)
(* points or fewer, or with running false, the array holds the LIDAR's     *)
(* points only and valid_paths is what these alone leave.                  *)
(***************************************************************************)
C30_D435MergeThreshold ==
    AfterSweep =>
        LET lidar_rows == SortedArray(Complexes(SweepReadings,
                              sensor_mounting_angle, angles_blanked, 1))
            merged == d435_running /\ Len(d435_obstacle) > 50
            row(o) == <<o.x, o.y, o.angle, o.distance>>
        IN  /\ merged =>
                  /\ Len(raw_scan[1]) = Len(lidar_rows) + Len(d435_obstacle)
                  /\ \A i \in 1..Len(d435_obstacle) :
                        \E k \in 1..Len(raw_scan[1]) :
                            raw_scan[1][k] = row(d435_obstacle[i])
            /\ ~merged =>
                  /\ raw_scan[1] = lidar_rows
                  /\ valid_paths = Some(PossiblePaths(lidar_rows))

\* the D435 provider runs and holds exactly 50 points right ahead of the
\* robot; the sweep itself has no point and the path ahead stays valid
C30_Witness ==
    /\ AfterSweep
    /\ d435_running
    /\ Len(d435_obstacle) = 50
    /\ d435_obstacle[1] = ObstacleAhead
    /\ raw_scan = Some(<< >>)
    /\ valid_paths = Some(<<4>>)

(***************************************************************************)
(* C31: for every reading and every configured mounting offset, the angle  *)
(* after the offset is added lies in [0, 360) before it is used: the       *)
(* angles of the raw frame are in [0, 360) and the angles of the rows      *)
(* kept for path planning are in [-180, +180).                             *)
(***************************************************************************)
C31_OrientedAngleWrapped ==
    AfterSweep =>
        /\ \A i \in 1..Len(raw[1]) : raw[1][i][1] >= 0 /\ raw[1][i][1] < 360
        /\ \A i \in 1..Len(raw_scan[1]) :
              raw_scan[1][i][3] >= -180 /\ raw_scan[1][i][3] < 180

\* the claim on a provider mounted with an offset of 540 degrees
C31_Counterexample ==
    (AfterSweep /\ sensor_mounting_angle = 540) =>
        \A i \in 1..Len(raw[1]) : raw[1][i][1] >= 0 /\ raw[1][i][1] < 360

(***************************************************************************)
(* C32: the first sample a provider ingests is measured against the        *)
(* initial previous position (0, 0, 0): after it, moving is true exactly   *)
(* when the sample's position is more than 0.01 m from the origin, or 0.7  *)
(* times that distance is more than 0.01 m.                                *)
(***************************************************************************)
C32_FirstSampleMeasuredFromOrigin ==
    (last_call = "process_odom" /\ Len(consumed) = 1) =>
        LET from_origin ==
                isqrt(previous_x * previous_x + previous_y * previous_y
                      + previous_z * previous_z) * 10
        IN  /\ last_delta = from_origin
            /\ moving = (from_origin > MOVING_THRESHOLD
                         \/ 7 * from_origin > 10 * MOVING_THRESHOLD)

\* the first sample lies 0.3 m from the origin and the provider reports
\* movement
C32_Witness ==
    /\ last_call = "process_odom"
    /\ Len(consumed) = 1
    /\ odom_x = 20
    /\ previous_z = 300
    /\ moving

(***************************************************************************)
(* C33: move_history is never negative and never exceeds the largest delta *)
(* of the samples ingested so far (the first one measured from the         *)
(* origin); so while every delta has been at most 0.01 m, moving is false, *)
(* however far the position has drifted.                                   *)
(***************************************************************************)
C33_HistoryBoundedByLargestDelta ==
    /\ move_history >= 0
    /\ move_history <= largest_delta
    /\ largest_delta <= MOVING_THRESHOLD => ~moving

\* three steps of 8 mm have taken the position 24 mm from the origin and the
\* provider still reports no movement
C33_Witness ==
    /\ last_call = "process_odom"
    /\ previous_z = 24
    /\ largest_delta = 80
    /\ move_history > 0
    /\ ~moving

(***************************************************************************)
(* C34: the stop flag is never cleared, and once stop() has returned no    *)
(* later start() makes the provider ingest again: no processing thread     *)
(* gets to read the queue, and the ingested state and the count of         *)
(* consumed messages stay as stop() left them, while a newly started       *)
(* acquisition process may keep enqueueing.                                *)
(***************************************************************************)
C34_NoIngestAfterStop ==
    [][/\ stop_event => stop_event'
       /\ (stop_event /\ caller_pc = "idle") =>
             /\ UNCHANGED <<motion_fields, consumed>>
             /\ ~(odom_processor_thread' = "alive" /\ processor_pc' = "get")]_vars

\* start() after stop() has made a new acquisition process, which has put a
\* message on the queue; the processing thread it made has exited and nothing
\* takes the message off
C34_Witness ==
    /\ stop_event
    /\ caller_pc = "idle"
    /\ odom_reader_thread = "alive"
    /\ odom_processor_thread = "dead"
    /\ call_effects.threads = 1
    /\ last_call = "put"
    /\ data_queue # << >>

(***************************************************************************)
(* C35: under any interleaving of start() calls from several threads on    *)
(* the same provider, at most one acquisition process and at most one      *)
(* processing thread are alive at any time.                                *)
(***************************************************************************)
C35_AtMostOneOfEachUnit ==
    /\ processes_alive <= 1
    /\ threads_alive <= 1

\* the claim on the acquisition processes, for start() calls made while no
\* stop() has been called
C35_Counterexample ==
    ~stop_event => processes_alive <= 1

(***************************************************************************)
(* C36: whenever start() returns on a provider that has its channel or     *)
(* topic and on which stop() has not been called, a processing thread is   *)
(* alive; this includes a start() called after the previous processing     *)
(* thread has died while the acquisition process is still alive.           *)
(***************************************************************************)
C36_StartLeavesProcessorAlive ==
    (last_call = "start" /\ token /\ ~stop_event) =>
        odom_processor_thread = "alive"

\* the claim on a start() that finds the acquisition process alive and
\* creates nothing
C36_Counterexample ==
    (last_call = "start" /\ token /\ ~stop_event
        /\ odom_reader_thread = "alive" /\ call_effects.processes = 0) =>
        odom_processor_thread = "alive"

(***************************************************************************)
(* C37: what a reader of valid_paths and movement_options observes, also   *)
(* while the subscriber thread is processing a sweep, is the complete      *)
(* result of one sweep (or the state before the first one): the buckets    *)
(* are those of the valid_paths read with them, never cleared and not yet  *)
(* refilled, nor those of another sweep.                                   *)
(***************************************************************************)
C37_ReaderSeesOneSweep ==
    observed # None =>
        LET seen == IF observed[1].valid_paths = None THEN << >>
                     ELSE observed[1].valid_paths[1]
        IN  observed[1].movement_options =
                [turn_left |-> TurnLeftOf(seen), advance |-> AdvanceOf(seen),
                 turn_right |-> TurnRightOf(seen),
                 retreat |-> RetreatOf(seen)]

\* the claim on a read made after line 396 and before the loop of line 401
C37_Counterexample ==
    (last_call = "read" /\ sweep_pc = "cleared") =>
        LET seen == IF observed[1].valid_paths = None THEN << >>
                     ELSE observed[1].valid_paths[1]
        IN  observed[1].movement_options.advance = AdvanceOf(seen)

(***************************************************************************)
(* C38: the running flag does not gate ingestion.  start() and stop() set  *)
(* running to True and False and nothing else, and after a sweep, also one *)
(* delivered before start() or after stop(), raw_scan, valid_paths, the    *)
(* movement options and lidar_string are those of that sweep.              *)
(***************************************************************************)
C38_RunningDoesNotGate ==
    /\ [](AfterSweep =>
            /\ scans # None
            /\ angles_final # None
            /\ \E array \in {SortedArray(
                     Complexes(zip(angles_final[1], scans[1].ranges),
                               sensor_mounting_angle, angles_blanked, 1)
                     \o D435Rows(d435_running, d435_obstacle))} :
               \E ppl \in {PossiblePaths(array)} :
                  /\ raw_scan = Some(array)
                  /\ valid_paths = Some(ppl)
                  /\ turn_left = TurnLeftOf(ppl)
                  /\ advance = AdvanceOf(ppl)
                  /\ turn_right = TurnRightOf(ppl)
                  /\ retreat = RetreatOf(ppl)
                  /\ lidar_string =
                        Some(generate_movement_string(ppl, AdvanceOf(ppl))))
    /\ [][(last_call' = "start" \/ last_call' = "stop") =>
             /\ running' = (last_call' = "start")
             /\ UNCHANGED <<scans, angles, angles_final, raw_scan,
                            valid_paths, lidar_string, turn_left, turn_right,
                            advance, retreat, raw>>]_vars

\* a sweep delivered while running is False has been ingested and has left
\* paths
C38_Witness ==
    /\ AfterSweep
    /\ ~running
    /\ valid_paths # None
    /\ valid_paths[1] # << >>
    /\ raw_scan # None
    /\ raw_scan[1] # << >>

====
